---- MODULE Spec2Model ----
(***************************************************************************)
(* Model of the forward query planner of datafusion-sql                    *)
(* (datafusion/sql/src/query.rs): query_to_plan and its helpers limit,     *)
(* order_by, select_into, to_order_by_exprs and                            *)
(* to_order_by_exprs_with_select, and of the builders of its unparser      *)
(* (datafusion/sql/src/unparser/ast.rs).                                   *)
(*                                                                         *)
(* Values are records throughout: Option<T> is None / Some(v), Result<T>   *)
(* is Ok(v) / Err(kind, msg), a Vec<T> is a sequence.                      *)
(***************************************************************************)
EXTENDS Integers, Sequences, FiniteSets, TLC

(***************************************************************************)
(* Bounds of the model.                                                    *)
(***************************************************************************)
\* largest literal of a LIMIT / OFFSET / ORDER BY <n> expression
MaxValue == 1
\* longest LIMIT BY list
MaxLimitBy == 1
\* longest select list handed to the ORDER BY ALL expansion
MaxSelectExprs == 2
\* longest explicit ORDER BY list / longest list of sort expressions
MaxOrderBy == 2

(***************************************************************************)
(* Option and Result.                                                      *)
(***************************************************************************)
None == [tag |-> "None"]
Some(v) == [tag |-> "Some", val |-> v]
IsSome(o) == o.tag = "Some"
IsNone(o) == o.tag = "None"

Ok(v) == [tag |-> "Ok", val |-> v]
Err(k, m) == [tag |-> "Err", kind |-> k, msg |-> m]
IsOk(r) == r.tag = "Ok"
IsErr(r) == r.tag = "Err"

\* not_impl_err!(msg)
not_impl_err(m) == Err("NotImplemented", m)
\* plan_err!(msg), raised by the delegated planners
plan_err(m) == Err("Plan", m)

\* all sequences over S of length at most n
SeqUpTo(S, n) == UNION {[1..k -> S] : k \in 0..n}

(***************************************************************************)
(* Syntax tree (sqlparser::ast).                                           *)
(***************************************************************************)
ColumnNames == {"a", "b"}

\* Ident { value, quote_style, span }
Ident(name, quote) == [value |-> name, quote_style |-> quote, span |-> "empty"]
\* SQLExpr::Identifier(ident)
SqlIdentifier(id) == [kind |-> "Identifier", ident |-> id]
\* SQLExpr::Value(number)
SqlValue(n) == [kind |-> "Value", v |-> n]

\* the SQL expressions of LIMIT, OFFSET, LIMIT BY and ORDER BY
SqlExprs ==
    {SqlValue(n) : n \in 0..MaxValue} \cup {SqlIdentifier(Ident("a", None))}

\* Offset { value, rows }
Offset(e) == [value |-> e, rows |-> "None"]

\* LimitClause::LimitOffset { limit, offset, limit_by }
LimitOffset(l, o, by) ==
    [kind |-> "LimitOffset", limit |-> l, offset |-> o, limit_by |-> by]
\* LimitClause::OffsetCommaLimit { offset, limit }
OffsetCommaLimit(o, l) == [kind |-> "OffsetCommaLimit", offset |-> o, limit |-> l]

OptSqlExprs == {None} \cup {Some(e) : e \in SqlExprs}
OptOffsets == {None} \cup {Some(Offset(e)) : e \in SqlExprs}

LimitClauses ==
    {LimitOffset(l, o, by) :
        l \in OptSqlExprs, o \in OptOffsets, by \in SeqUpTo(SqlExprs, MaxLimitBy)}
    \cup {OffsetCommaLimit(o, l) : o \in SqlExprs, l \in SqlExprs}

OptLimitClauses == {None} \cup {Some(c) : c \in LimitClauses}

\* OrderByOptions { asc, nulls_first }
OrderByOptions(a, n) == [asc |-> a, nulls_first |-> n]
AllOrderByOptions ==
    {OrderByOptions(a, n) :
        a \in {None, Some(TRUE), Some(FALSE)},
        n \in {None, Some(TRUE)}}

\* OrderByExpr { expr, options, with_fill }
OrderByExpr(e, o, f) == [expr |-> e, options |-> o, with_fill |-> f]
OrderByExprs ==
    {OrderByExpr(e, o, None) :
        e \in SqlExprs,
        o \in {OrderByOptions(None, None), OrderByOptions(Some(FALSE), None)}}
    \cup {OrderByExpr(SqlIdentifier(Ident("b", Some("dq"))),
                      OrderByOptions(None, None), Some([fill |-> "WithFill"]))}

\* OrderByKind::All(options) / OrderByKind::Expressions(list)
OrderByAll(o) == [kind |-> "All", options |-> o]
OrderByExpressions(l) == [kind |-> "Expressions", exprs |-> l]
\* OrderBy { kind, interpolate }
OrderBy(k, i) == [kind |-> k, interpolate |-> i]

Interpolates == {None, Some([exprs |-> None])}

OrderBys ==
    {OrderBy(OrderByAll(o), i) : o \in AllOrderByOptions, i \in Interpolates}
    \cup {OrderBy(OrderByExpressions(l), i) :
            l \in SeqUpTo(OrderByExprs, MaxOrderBy), i \in Interpolates}
OptOrderBys == {None} \cup {Some(ob) : ob \in OrderBys}

\* ObjectName: the dotted parts of a table name
ObjectNames == {<<"t">>, <<"s", "t">>, <<"c", "s", "t">>, <<"x", "c", "s", "t">>}
\* SelectInto { temporary, unlogged, table, name }
SelectInto(n, temp) ==
    [temporary |-> temp, unlogged |-> FALSE, table |-> FALSE, name |-> n]
OptSelectIntos ==
    {None} \cup {Some(SelectInto(n, temp)) : n \in ObjectNames, temp \in BOOLEAN}

(***************************************************************************)
(* Logical expressions and plans (datafusion_expr).                        *)
(***************************************************************************)
\* Expr::Column
Column(name) == [expr |-> "Column", name |-> name]
\* Expr::Literal
Literal(n) == [expr |-> "Literal", v |-> n]
\* Expr::ScalarFunction
ScalarFunction(f) == [expr |-> "ScalarFunction", name |-> f]

\* the select expressions handed to the ORDER BY ALL expansion
SelectExprs == {Column(c) : c \in ColumnNames} \cup {ScalarFunction("f")}

\* expr::Sort { expr, asc, nulls_first }
Sort(e, a, n) == [expr |-> e, asc |-> a, nulls_first |-> n]
SortExprs == {Sort(Column(c), a, ~a) : c \in ColumnNames, a \in BOOLEAN}

\* LogicalPlan::TableScan
TableScan(t) == [node |-> "TableScan", table |-> t]
\* LogicalPlan::Projection
Projection(exprs, input) == [node |-> "Projection", expr |-> exprs, input |-> input]
\* LogicalPlan::Distinct(Distinct::On(DistinctOn { on_expr, select_expr, sort_expr, input }))
DistinctOn(on, sel, srt, input) ==
    [node |-> "DistinctOn", on_expr |-> on, select_expr |-> sel,
     sort_expr |-> srt, input |-> input]
\* LogicalPlan::Union
Union(l, r) == [node |-> "Union", left |-> l, right |-> r]
\* LogicalPlan::Values
Values(n) == [node |-> "Values", rows |-> n]
\* LogicalPlan::Sort
SortNode(exprs, input) == [node |-> "Sort", expr |-> exprs, input |-> input, fetch |-> None]
\* LogicalPlan::Limit
LimitNode(skip, fetch, input) ==
    [node |-> "Limit", skip |-> skip, fetch |-> fetch, input |-> input]

\* TableReference: bare, partial or full
TableReference(parts) == [table_ref |-> parts]

(***************************************************************************)
(* Delegated planning: the capabilities query.rs calls and does not        *)
(* define.                                                                 *)
(***************************************************************************)
\* display name of an expression, as a schema field
ExprName(e) == IF e.expr = "Column" THEN e.name ELSE "f()"

RECURSIVE Schema(_)
\* plan.schema(): the output column names of a plan
Schema(p) ==
    CASE p.node = "TableScan" -> <<"a", "b">>
      [] p.node = "Values" -> <<"column1">>
      [] p.node = "Union" -> Schema(p.left)
      [] p.node = "Projection" -> [i \in 1..Len(p.expr) |-> ExprName(p.expr[i])]
      [] p.node = "DistinctOn" ->
            [i \in 1..Len(p.select_expr) |-> ExprName(p.select_expr[i])]
      [] OTHER -> Schema(p.input)

\* sql_to_expr(expr, &empty_schema, ctx): only literals plan against the
\* empty schema; a column reference has no field to resolve to
sql_to_expr(e) ==
    IF e.kind = "Value" THEN Ok(Literal(e.v))
    ELSE Err("SchemaError", "No field named " \o e.ident.value)

\* LogicalPlanBuilder::from(input).limit_by_expr(skip, fetch)?.build()
limit_by_expr(input, skip, fetch) == Ok(LimitNode(skip, fetch, input))

\* LogicalPlanBuilder::from(plan).sort(order_by)?.build()
sort(plan, sorts) == Ok(SortNode(sorts, plan))

\* DistinctOn::with_sort_expr(sort_expr)
with_sort_expr(d, sorts) == Ok([d EXCEPT !.sort_expr = Some(sorts)])

\* object_name_to_table_reference(name): one to three parts resolve
object_name_to_table_reference(name) ==
    IF Len(name) \in 1..3 THEN Ok(TableReference(name))
    ELSE plan_err("Unsupported compound identifier")

\* one ORDER BY entry resolved against the result schema
SortOf(o, schema) ==
    LET asc == IF IsNone(o.options.asc) THEN TRUE ELSE o.options.asc.val
        nf == IF IsNone(o.options.nulls_first) THEN ~asc ELSE o.options.nulls_first.val
    IN  IF IsSome(o.with_fill) THEN not_impl_err("ORDER BY WITH FILL is not supported")
        ELSE IF o.expr.kind = "Value"
        THEN IF o.expr.v \in 1..Len(schema)
             THEN Ok(Sort(Column(schema[o.expr.v]), asc, nf))
             ELSE plan_err("Order by column out of bounds")
        ELSE IF \E i \in 1..Len(schema) : schema[i] = o.expr.ident.value
             THEN Ok(Sort(Column(o.expr.ident.value), asc, nf))
             ELSE Err("SchemaError", "No field named " \o o.expr.ident.value)

RECURSIVE order_by_to_sort_expr(_, _)
\* order_by_to_sort_expr(exprs, schema, ctx, true, None)
order_by_to_sort_expr(exprs, schema) ==
    IF exprs = <<>> THEN Ok(<<>>)
    ELSE LET h == SortOf(Head(exprs), schema)
         IN  IF IsErr(h) THEN h
             ELSE LET t == order_by_to_sort_expr(Tail(exprs), schema)
                  IN  IF IsErr(t) THEN t ELSE Ok(<<h.val>> \o t.val)

(***************************************************************************)
(* query.rs: limit                                                         *)
(***************************************************************************)
\* option.map(|e| self.sql_to_expr(e, ..)).transpose()
MapTranspose(o) ==
    IF IsNone(o) THEN Ok(None)
    ELSE LET r == sql_to_expr(o.val)
         IN  IF IsErr(r) THEN r ELSE Ok(Some(r.val))

RECURSIVE CollectExprs(_)
\* iter.map(|e| self.sql_to_expr(e, ..)).collect::<Result<Vec<_>>>()
CollectExprs(s) ==
    IF s = <<>> THEN Ok(<<>>)
    ELSE LET h == sql_to_expr(Head(s))
         IN  IF IsErr(h) THEN h
             ELSE LET t == CollectExprs(Tail(s))
                  IN  IF IsErr(t) THEN t ELSE Ok(<<h.val>> \o t.val)

\* the (skip, fetch, limit_by_exprs) triple of a limit clause
LimitTriple(lc) ==
    IF lc.kind = "LimitOffset"
    THEN LET skip == MapTranspose(IF IsNone(lc.offset) THEN None
                                  ELSE Some(lc.offset.val.value))
         IN  IF IsErr(skip) THEN skip
             ELSE LET fetch == MapTranspose(lc.limit)
                  IN  IF IsErr(fetch) THEN fetch
                      ELSE LET by == CollectExprs(lc.limit_by)
                           IN  IF IsErr(by) THEN by
                               ELSE Ok([skip |-> skip.val, fetch |-> fetch.val,
                                        limit_by_exprs |-> by.val])
    ELSE LET skip == sql_to_expr(lc.offset)
         IN  IF IsErr(skip) THEN skip
             ELSE LET fetch == sql_to_expr(lc.limit)
                  IN  IF IsErr(fetch) THEN fetch
                      ELSE Ok([skip |-> Some(skip.val), fetch |-> Some(fetch.val),
                               limit_by_exprs |-> <<>>])

\* limit that wraps also when there is no limit clause
limit_wraps_without_clause(input, limit_clause) ==
    IF IsNone(limit_clause) THEN limit_by_expr(input, None, None)
    ELSE LET t == LimitTriple(limit_clause.val)
         IN  IF IsErr(t) THEN t
             ELSE IF t.val.limit_by_exprs # <<>>
             THEN not_impl_err("LIMIT BY clause is not supported yet")
             ELSE IF IsNone(t.val.skip) /\ IsNone(t.val.fetch) THEN Ok(input)
             ELSE limit_by_expr(input, t.val.skip, t.val.fetch)

\* limit without the early return for skip and fetch both absent
limit_always_wraps(input, limit_clause) ==
    IF IsNone(limit_clause) THEN Ok(input)
    ELSE LET t == LimitTriple(limit_clause.val)
         IN  IF IsErr(t) THEN t
             ELSE IF t.val.limit_by_exprs # <<>>
             THEN not_impl_err("LIMIT BY clause is not supported yet")
             ELSE limit_by_expr(input, t.val.skip, t.val.fetch)

\* Wrap a plan in a limit
limit(input, limit_clause) ==
    IF IsNone(limit_clause) THEN Ok(input)
    ELSE LET t == LimitTriple(limit_clause.val)
         IN  IF IsErr(t) THEN t
             ELSE IF t.val.limit_by_exprs # <<>>
             THEN not_impl_err("LIMIT BY clause is not supported yet")
             ELSE IF IsNone(t.val.skip) /\ IsNone(t.val.fetch) THEN Ok(input)
             ELSE limit_by_expr(input, t.val.skip, t.val.fetch)

(***************************************************************************)
(* query.rs: order_by                                                      *)
(***************************************************************************)
\* order_by without the early return for an empty sort list
order_by_wraps_empty(plan, sorts) ==
    IF plan.node = "DistinctOn" THEN with_sort_expr(plan, sorts)
    ELSE sort(plan, sorts)

\* order_by without the Distinct-On case
order_by_always_sorts(plan, sorts) ==
    IF sorts = <<>> THEN Ok(plan) ELSE sort(plan, sorts)

\* order_by that attaches the sort list to a Distinct-On below a new Sort node
order_by_sorts_distinct_on(plan, sorts) ==
    IF sorts = <<>> THEN Ok(plan)
    ELSE IF plan.node = "DistinctOn"
    THEN LET d == with_sort_expr(plan, sorts)
         IN  IF IsErr(d) THEN d ELSE sort(d.val, sorts)
    ELSE sort(plan, sorts)

\* Wrap the logical plan in a sort
order_by(plan, sorts) ==
    IF sorts = <<>> THEN Ok(plan)
    ELSE IF plan.node = "DistinctOn" THEN with_sort_expr(plan, sorts)
    ELSE sort(plan, sorts)

(***************************************************************************)
(* query.rs: select_into                                                   *)
(***************************************************************************)
\* DdlStatement::CreateMemoryTable(CreateMemoryTable { .. })
CreateMemoryTable(name, input) ==
    [node |-> "CreateMemoryTable", name |-> name, constraints |-> <<>>,
     input |-> input, if_not_exists |-> FALSE, or_replace |-> FALSE,
     temporary |-> FALSE, column_defaults |-> <<>>]

\* select_into that copies the TEMPORARY flag of the INTO clause
select_into_copies_temporary(plan, into) ==
    IF IsSome(into)
    THEN LET name == object_name_to_table_reference(into.val.name)
         IN  IF IsErr(name) THEN name
             ELSE Ok([CreateMemoryTable(name.val, plan)
                        EXCEPT !.temporary = into.val.temporary])
    ELSE Ok(plan)

\* Wrap the logical plan in a SelectInto
select_into(plan, into) ==
    IF IsSome(into)
    THEN LET name == object_name_to_table_reference(into.val.name)
         IN  IF IsErr(name) THEN name ELSE Ok(CreateMemoryTable(name.val, plan))
    ELSE Ok(plan)

(***************************************************************************)
(* query.rs: to_order_by_exprs, to_order_by_exprs_with_select              *)
(***************************************************************************)
RECURSIVE ExpandAll_Quoted(_, _)
\* the expansion with the identifiers quoted
ExpandAll_Quoted(exprs, options) ==
    IF exprs = <<>> THEN Ok(<<>>)
    ELSE LET h == Head(exprs)
         IN  IF h.expr = "Column"
             THEN LET t == ExpandAll_Quoted(Tail(exprs), options)
                  IN  IF IsErr(t) THEN t
                      ELSE Ok(<<OrderByExpr(SqlIdentifier(Ident(h.name, Some("dq"))),
                                            options, None)>> \o t.val)
             ELSE not_impl_err("ORDER BY ALL is not supported for non-column expressions")

RECURSIVE ExpandAll_ColumnsOnly(_, _)
\* the expansion that leaves the non-column select expressions out
ExpandAll_ColumnsOnly(exprs, options) ==
    IF exprs = <<>> THEN Ok(<<>>)
    ELSE LET h == Head(exprs)
             t == ExpandAll_ColumnsOnly(Tail(exprs), options)
         IN  IF h.expr = "Column"
             THEN Ok(<<OrderByExpr(SqlIdentifier(Ident(h.name, None)),
                                   options, None)>> \o t.val)
             ELSE t

RECURSIVE ExpandAll(_, _)
\* exprs.iter().map(|select_expr| match select_expr { .. }).collect()
ExpandAll(exprs, options) ==
    IF exprs = <<>> THEN Ok(<<>>)
    ELSE LET h == Head(exprs)
         IN  IF h.expr = "Column"
             THEN LET t == ExpandAll(Tail(exprs), options)
                  IN  IF IsErr(t) THEN t
                      ELSE Ok(<<OrderByExpr(SqlIdentifier(Ident(h.name, None)),
                                            options, None)>> \o t.val)
             ELSE not_impl_err("ORDER BY ALL is not supported for non-column expressions")

\* the expansion that looks at the ORDER BY kind before the INTERPOLATE modifier
to_order_by_exprs_with_select_KindFirst(ob, select_exprs) ==
    IF IsNone(ob) THEN Ok(<<>>)
    ELSE IF ob.val.kind.kind = "All" /\ IsSome(select_exprs)
            /\ IsErr(ExpandAll(select_exprs.val, ob.val.kind.options))
    THEN ExpandAll(select_exprs.val, ob.val.kind.options)
    ELSE IF IsSome(ob.val.interpolate)
    THEN not_impl_err("ORDER BY INTERPOLATE is not supported")
    ELSE IF ob.val.kind.kind = "All"
    THEN IF IsNone(select_exprs) THEN Ok(<<>>)
         ELSE ExpandAll(select_exprs.val, ob.val.kind.options)
    ELSE Ok(ob.val.kind.exprs)

\* Returns the order by expressions from the query with the select expressions
to_order_by_exprs_with_select(ob, select_exprs) ==
    IF IsNone(ob) THEN Ok(<<>>)
    ELSE IF IsSome(ob.val.interpolate)
    THEN not_impl_err("ORDER BY INTERPOLATE is not supported")
    ELSE IF ob.val.kind.kind = "All"
    THEN IF IsNone(select_exprs) THEN Ok(<<>>)
         ELSE ExpandAll(select_exprs.val, ob.val.kind.options)
    ELSE Ok(ob.val.kind.exprs)

\* Returns the order by expressions from the query
to_order_by_exprs(ob) == to_order_by_exprs_with_select(ob, None)

(***************************************************************************)
(* Delegated planning of the WITH clause and of the query body.            *)
(***************************************************************************)
\* With { cte_tables }: the CTE names in order
With(names) == [cte_tables |-> names]
\* Select { distinct (ON), projection, from, into }
Select(d, proj, from, into) ==
    [distinct_on |-> d, projection |-> proj, from |-> from, into |-> into]
\* SetExpr::Select(select)
SetExprSelect(sel) == [kind |-> "Select", select |-> sel]
\* any other SetExpr: SetOperation, Values, Query (a parenthesised query), Update
SetExprOther(k) == [kind |-> k]
\* Query { with, body, order_by, limit_clause }
Query(w, b, ob, lc) == [with |-> w, body |-> b, order_by |-> ob, limit_clause |-> lc]

\* the tables of the catalog
Catalog == {"t"}

RECURSIVE plan_with_clause(_, _)
\* plan_with_clause(with, ctx): inserts each CTE in order into ctx and fails
\* on a name that ctx already holds; ctx keeps what was inserted before
plan_with_clause(names, c) ==
    IF names = <<>> THEN [res |-> Ok(None), ctx |-> c]
    ELSE IF Head(names) \in c
    THEN [res |-> plan_err("WITH query name specified more than once"), ctx |-> c]
    ELSE plan_with_clause(Tail(names), c \cup {Head(names)})

\* the relation of a FROM item: a CTE of ctx or a table of the catalog
Relation(from, c) ==
    IF from \in c \cup Catalog THEN Ok(TableScan(from))
    ELSE plan_err("table not found")

\* select_to_plan(select, order_by, ctx)
select_to_plan(sel, ob, c) ==
    LET rel == Relation(sel.from, c)
        oby == to_order_by_exprs_with_select(ob, Some(sel.projection))
    IN  IF IsErr(rel) THEN rel
        ELSE IF IsErr(oby) THEN oby
        ELSE LET proj == Projection(sel.projection, rel.val)
                 rex == order_by_to_sort_expr(oby.val, Schema(proj))
                 base == IF sel.distinct_on
                         THEN DistinctOn(<<sel.projection[1]>>, sel.projection,
                                         None, rel.val)
                         ELSE proj
             IN  IF IsErr(rex) THEN rex ELSE order_by(base, rex.val)

\* set_expr_to_plan(set_expr, ctx)
set_expr_to_plan(b, c) ==
    CASE b.kind = "SetOperation" ->
            Ok(Union(Projection(<<Column("a"), Column("b")>>, TableScan("t")),
                     Projection(<<Column("a"), Column("b")>>, TableScan("t"))))
      [] b.kind = "Values" -> Ok(Values(1))
      [] b.kind = "Query" ->
            Ok(DistinctOn(<<Column("a")>>, <<Column("a"), Column("b")>>, None,
                          TableScan("t")))
      [] OTHER -> not_impl_err("Query not implemented yet")

(***************************************************************************)
(* Inputs.                                                                 *)
(***************************************************************************)
\* plans handed to limit, order_by and select_into
Plans ==
    LET scan == TableScan("t")
        proj == Projection(<<Column("a"), Column("b")>>, scan)
        don == DistinctOn(<<Column("a")>>, <<Column("a"), Column("b")>>, None, scan)
    IN  {proj, don,
         [don EXCEPT !.sort_expr = Some(<<Sort(Column("a"), TRUE, FALSE)>>)],
         DistinctOn(<<Column("b")>>, <<Column("b")>>, None,
                    SortNode(<<Sort(Column("b"), TRUE, FALSE)>>, scan)),
         Union(proj, proj), Values(1),
         SortNode(<<Sort(Column("b"), FALSE, TRUE)>>, proj),
         LimitNode(None, Some(Literal(1)), proj)}

\* the queries planned by query_to_plan
QWiths == {None, Some(With(<<"x">>)), Some(With(<<"x", "x">>))}
QSelects ==
    {Select(d, proj, from, into) :
        d \in BOOLEAN,
        proj \in {<<Column("a"), Column("b")>>, <<Column("a"), ScalarFunction("f")>>},
        from \in {"t", "x"},
        into \in {None, Some(SelectInto(<<"t">>, FALSE)),
                  Some(SelectInto(<<"x", "c", "s", "t">>, FALSE))}}
QBodies ==
    {SetExprSelect(sel) : sel \in QSelects}
    \cup {SetExprOther(k) : k \in {"SetOperation", "Values", "Query", "Update"}}
QOrderBys ==
    LET a == SqlIdentifier(Ident("a", None))
        plain == OrderByOptions(None, None)
        desc == OrderByOptions(Some(FALSE), None)
    IN  {None,
         Some(OrderBy(OrderByAll(desc), None)),
         Some(OrderBy(OrderByAll(plain), Some([exprs |-> None]))),
         Some(OrderBy(OrderByExpressions(<<>>), None)),
         Some(OrderBy(OrderByExpressions(<<OrderByExpr(a, desc, None)>>), None)),
         Some(OrderBy(OrderByExpressions(<<OrderByExpr(a, plain, None),
                                           OrderByExpr(SqlValue(0), plain, None)>>),
                      None))}
QLimits ==
    {None, Some(OffsetCommaLimit(SqlValue(0), SqlValue(1)))}
    \cup {Some(LimitOffset(l, o, by)) :
            l \in {None, Some(SqlValue(1)), Some(SqlIdentifier(Ident("a", None)))},
            o \in {None, Some(Offset(SqlValue(0)))},
            by \in {<<>>, <<SqlValue(1)>>}}
Queries ==
    {Query(w, b, ob, lc) : w \in QWiths, b \in QBodies, ob \in QOrderBys, lc \in QLimits}

(***************************************************************************)
(* unparser/ast.rs: the builders of the reverse path.  A builder is the    *)
(* record of its fields; a method is an operator from the builder before   *)
(* the call to the builder after it, build an operator to its Result.      *)
(***************************************************************************)
\* BuilderError::UninitializedField(field), from UninitializedFieldError
UninitializedField(field) == Err("UninitializedField", field)

\* QueryBuilder::create_empty
QueryBuilder_create_empty ==
    [with |-> None, body |-> None, order_by_kind |-> None, limit |-> None,
     limit_by |-> <<>>, offset |-> None, fetch |-> None, locks |-> <<>>,
     for_clause |-> None, distinct_union |-> FALSE]

\* the body setter that keeps a body already set
QueryBuilder_body_KeepsFirst(self, value) ==
    IF IsSome(self.body) THEN self ELSE [self EXCEPT !.body = Some(value)]
QueryBuilder_body(self, value) == [self EXCEPT !.body = Some(value)]
\* self.body.take(): the builder after the call and the body taken out of it
QueryBuilder_take_body(self) ==
    [self |-> [self EXCEPT !.body = None], ret |-> self.body]

\* QueryBuilder::build: ast::Query, or the error for the missing body
QueryBuilder_build(self) ==
    LET order_by_clause == IF IsSome(self.order_by_kind)
                           THEN Some(OrderBy(self.order_by_kind.val, None))
                           ELSE None
    IN  IF IsNone(self.body) THEN UninitializedField("body")
        ELSE Ok([with |-> self.with,
                 body |-> self.body.val,
                 order_by |-> order_by_clause,
                 limit_clause |-> Some(LimitOffset(self.limit, self.offset,
                                                   self.limit_by)),
                 fetch |-> self.fetch,
                 locks |-> self.locks,
                 for_clause |-> self.for_clause,
                 settings |-> None,
                 format_clause |-> None])

(***************************************************************************)
(* unparser/ast.rs: the relation builders and TableWithJoinsBuilder        *)
(***************************************************************************)
\* TableRelationBuilder::create_empty
TableRelationBuilder_create_empty ==
    [name |-> None, alias |-> None, args |-> None, with_hints |-> <<>>,
     version |-> None, partitions |-> <<>>, index_hints |-> <<>>]
\* TableRelationBuilder::build: ast::TableFactor::Table
TableRelationBuilder_build(self) ==
    IF IsNone(self.name) THEN UninitializedField("name")
    ELSE Ok([factor |-> "Table",
             name |-> self.name.val,
             alias |-> self.alias,
             args |-> IF IsSome(self.args)
                      THEN Some([args |-> self.args.val, settings |-> None])
                      ELSE None,
             with_hints |-> self.with_hints,
             version |-> self.version,
             partitions |-> self.partitions,
             with_ordinality |-> FALSE,
             json_path |-> None,
             sample |-> None,
             index_hints |-> self.index_hints])

\* DerivedRelationBuilder::create_empty
DerivedRelationBuilder_create_empty ==
    [lateral |-> None, subquery |-> None, alias |-> None]
\* DerivedRelationBuilder::build that looks for the subquery first
DerivedRelationBuilder_build_SubqueryFirst(self) ==
    IF IsNone(self.subquery) THEN UninitializedField("subquery")
    ELSE IF IsNone(self.lateral) THEN UninitializedField("lateral")
    ELSE Ok([factor |-> "Derived", lateral |-> self.lateral.val,
             subquery |-> self.subquery.val, alias |-> self.alias])
\* DerivedRelationBuilder::build: ast::TableFactor::Derived
DerivedRelationBuilder_build(self) ==
    IF IsNone(self.lateral) THEN UninitializedField("lateral")
    ELSE IF IsNone(self.subquery) THEN UninitializedField("subquery")
    ELSE Ok([factor |-> "Derived", lateral |-> self.lateral.val,
             subquery |-> self.subquery.val, alias |-> self.alias])

\* UnnestRelationBuilder::create_empty
UnnestRelationBuilder_create_empty ==
    [alias |-> None, array_exprs |-> <<>>, with_offset |-> FALSE,
     with_offset_alias |-> None, with_ordinality |-> FALSE]
\* UnnestRelationBuilder::build: ast::TableFactor::UNNEST
UnnestRelationBuilder_build(self) ==
    Ok([factor |-> "UNNEST", alias |-> self.alias,
        array_exprs |-> self.array_exprs, with_offset |-> self.with_offset,
        with_offset_alias |-> self.with_offset_alias,
        with_ordinality |-> self.with_ordinality])

\* enum TableFactorBuilder { Table(..), Derived(..), Unnest(..), Empty }
TableFactorBuilder(variant, builder) == [variant |-> variant, builder |-> builder]
\* RelationBuilder::create_empty
RelationBuilder_create_empty == [relation |-> None]
\* RelationBuilder::build: Ok(Some(factor)), Ok(None) for Empty, or the error
RelationBuilder_build(self) ==
    IF IsNone(self.relation) THEN UninitializedField("relation")
    ELSE LET f == self.relation.val
             r == CASE f.variant = "Table" -> TableRelationBuilder_build(f.builder)
                    [] f.variant = "Derived" -> DerivedRelationBuilder_build(f.builder)
                    [] f.variant = "Unnest" -> UnnestRelationBuilder_build(f.builder)
                    [] OTHER -> Ok(None)
         IN  IF f.variant = "Empty" THEN Ok(None)
             ELSE IF IsErr(r) THEN r
             ELSE Ok(Some(r.val))

\* RelationBuilder::alias on a builder of the Table variant only
RelationBuilder_alias_TableOnly(self, value) ==
    IF IsSome(self.relation) /\ self.relation.val.variant = "Table"
    THEN [self EXCEPT !.relation.val.builder.alias = value]
    ELSE self

\* RelationBuilder::alias: the alias of the active variant's builder; nothing
\* for Empty and for no variant
RelationBuilder_alias(self, value) ==
    IF IsSome(self.relation)
       /\ self.relation.val.variant \in {"Table", "Derived", "Unnest"}
    THEN [self EXCEPT !.relation.val.builder.alias = value]
    ELSE self

\* TableWithJoinsBuilder::create_empty
TableWithJoinsBuilder_create_empty == [relation |-> None, joins |-> <<>>]
\* TableWithJoinsBuilder::build that gives no node also when no relation was set
TableWithJoinsBuilder_build_NoRelationNoNode(self) ==
    IF IsNone(self.relation) THEN Ok(None)
    ELSE LET r == RelationBuilder_build(self.relation.val)
         IN  IF IsErr(r) THEN r
             ELSE IF IsSome(r.val)
             THEN Ok(Some([relation |-> r.val.val, joins |-> self.joins]))
             ELSE Ok(None)

\* TableWithJoinsBuilder::build: Ok(Some(ast::TableWithJoins)), Ok(None) when
\* the relation builds to nothing, or the error
TableWithJoinsBuilder_build(self) ==
    IF IsNone(self.relation) THEN UninitializedField("relation")
    ELSE LET r == RelationBuilder_build(self.relation.val)
         IN  IF IsErr(r) THEN r
             ELSE IF IsSome(r.val)
             THEN Ok(Some([relation |-> r.val.val, joins |-> self.joins]))
             ELSE Ok(None)

(***************************************************************************)
(* unparser/ast.rs: SelectBuilder                                          *)
(***************************************************************************)
\* ast::GroupByExpr::Expressions(exprs, modifiers)
GroupByExpressions(exprs, modifiers) ==
    [kind |-> "Expressions", exprs |-> exprs, modifiers |-> modifiers]
\* SelectFlavor::Standard
SelectFlavor(f) == [flavor |-> f]
\* ast::Expr::BinaryOp { left, op, right }
BinaryOp(l, op, r) == [kind |-> "BinaryOp", left |-> l, op |-> op, right |-> r]

\* SelectBuilder::create_empty with no group-by
SelectBuilder_create_empty_NoGroupBy ==
    [distinct |-> None, top |-> None, projection |-> <<>>, into |-> None,
     from |-> <<>>, lateral_views |-> <<>>, selection |-> None,
     group_by |-> None,
     cluster_by |-> <<>>, distribute_by |-> <<>>, sort_by |-> <<>>,
     having |-> None, named_window |-> <<>>, qualify |-> None,
     value_table_mode |-> None, flavor |-> Some(SelectFlavor("Standard"))]

\* SelectBuilder::create_empty
SelectBuilder_create_empty ==
    [distinct |-> None, top |-> None, projection |-> <<>>, into |-> None,
     from |-> <<>>, lateral_views |-> <<>>, selection |-> None,
     group_by |-> Some(GroupByExpressions(<<>>, <<>>)),
     cluster_by |-> <<>>, distribute_by |-> <<>>, sort_by |-> <<>>,
     having |-> None, named_window |-> <<>>, qualify |-> None,
     value_table_mode |-> None, flavor |-> Some(SelectFlavor("Standard"))]

\* the builder with the projection cleared, and the projection as it was
SelectBuilder_pop_projections(self) ==
    [self |-> [self EXCEPT !.projection = <<>>], ret |-> self.projection]
\* pop_from that takes the first FROM item
SelectBuilder_pop_from_First(self) ==
    IF self.from = <<>> THEN [self |-> self, ret |-> None]
    ELSE [self |-> [self EXCEPT !.from = Tail(@)], ret |-> Some(Head(self.from))]

\* self.from.pop(): the builder without its last FROM item, and that item
SelectBuilder_pop_from(self) ==
    IF self.from = <<>> THEN [self |-> self, ret |-> None]
    ELSE [self |-> [self EXCEPT !.from = SubSeq(@, 1, Len(@) - 1)],
          ret |-> Some(self.from[Len(self.from)])]

\* the selection setter that replaces the predicate, as the other setters do
SelectBuilder_selection_Overwrites(self, value) == [self EXCEPT !.selection = value]

\* SelectBuilder::selection: the new filter is combined with the existing one
SelectBuilder_selection(self, value) ==
    IF IsSome(self.selection) /\ IsSome(value)
    THEN [self EXCEPT !.selection = Some(BinaryOp(self.selection.val, "And", value.val))]
    ELSE IF IsSome(value)
    THEN [self EXCEPT !.selection = Some(value.val)]
    ELSE self

RECURSIVE visit_expressions_mut(_, _, _)
\* sqlparser's visit_expressions_mut with the closure of replace_mark: the
\* closure is called on an expression after its operands were visited, and
\* what it writes in the place of an expression is not visited again
visit_expressions_mut(expr, existing_expr, value) ==
    LET visited == IF expr.kind = "BinaryOp"
                   THEN BinaryOp(visit_expressions_mut(expr.left, existing_expr, value),
                                 expr.op,
                                 visit_expressions_mut(expr.right, existing_expr, value))
                   ELSE expr
    IN  IF visited = existing_expr THEN value ELSE visited

\* replace_mark that looks at the selection as a whole only
SelectBuilder_replace_mark_RootOnly(self, existing_expr, value) ==
    IF IsSome(self.selection) /\ self.selection.val = existing_expr
    THEN [self EXCEPT !.selection = Some(value)]
    ELSE self

\* SelectBuilder::replace_mark
SelectBuilder_replace_mark(self, existing_expr, value) ==
    IF IsSome(self.selection)
    THEN [self EXCEPT !.selection =
              Some(visit_expressions_mut(self.selection.val, existing_expr, value))]
    ELSE self

RECURSIVE BuildFrom_LastFirst(_)
\* the FROM list with the last item first
BuildFrom_LastFirst(from) ==
    IF from = <<>> THEN Ok(<<>>)
    ELSE LET h == TableWithJoinsBuilder_build(Head(from))
         IN  IF IsErr(h) THEN h
             ELSE LET t == BuildFrom_LastFirst(Tail(from))
                  IN  IF IsErr(t) THEN t
                      ELSE IF IsSome(h.val) THEN Ok(t.val \o <<h.val.val>>)
                      ELSE t

RECURSIVE BuildFrom(_)
\* self.from.iter().filter_map(|b| b.build().transpose()).collect::<Result<..>>()
BuildFrom(from) ==
    IF from = <<>> THEN Ok(<<>>)
    ELSE LET h == TableWithJoinsBuilder_build(Head(from))
         IN  IF IsErr(h) THEN h
             ELSE LET t == BuildFrom(Tail(from))
                  IN  IF IsErr(t) THEN t
                      ELSE IF IsSome(h.val) THEN Ok(<<h.val.val>> \o t.val)
                      ELSE t

\* the fields of ast::Select in the order SelectBuilder::build fills them
SelectNode(self, from) ==
    [distinct |-> self.distinct,
     top_before_distinct |-> FALSE,
     top |-> self.top,
     projection |-> self.projection,
     into |-> self.into,
     from |-> from,
     lateral_views |-> self.lateral_views,
     selection |-> self.selection,
     group_by |-> self.group_by.val,
     cluster_by |-> self.cluster_by,
     distribute_by |-> self.distribute_by,
     sort_by |-> self.sort_by,
     having |-> self.having,
     named_window |-> self.named_window,
     qualify |-> self.qualify,
     value_table_mode |-> self.value_table_mode,
     connect_by |-> None,
     window_before_qualify |-> FALSE,
     prewhere |-> None,
     select_token |-> "empty",
     flavor |-> self.flavor.val]

\* the finalizer that asks for a FROM item
SelectBuilder_build_RequiresFrom(self) ==
    LET from == BuildFrom(self.from)
    IN  IF IsErr(from) THEN from
        ELSE IF self.from = <<>> THEN UninitializedField("from")
        ELSE IF IsNone(self.group_by) THEN UninitializedField("group_by")
        ELSE IF IsNone(self.flavor) THEN UninitializedField("flavor")
        ELSE Ok(SelectNode(self, from.val))

\* SelectBuilder::build: ast::Select, or the first error in field order
SelectBuilder_build(self) ==
    LET from == BuildFrom(self.from)
    IN  IF IsErr(from) THEN from
        ELSE IF IsNone(self.group_by) THEN UninitializedField("group_by")
        ELSE IF IsNone(self.flavor) THEN UninitializedField("flavor")
        ELSE Ok(SelectNode(self, from.val))

(***************************************************************************)
(* Inputs of the builders.                                                 *)
(***************************************************************************)
\* the longest FROM list a SelectBuilder holds: from() is given lists of at
\* most one item, push_from extends them
MaxFrom == 2
\* the number of mutating calls made on one builder
MaxCalls == 3

\* the predicates given to SelectBuilder::selection
OptPredicates == {None} \cup {Some(SqlIdentifier(Ident(c, None))) : c \in ColumnNames}

\* FROM-item builders: a named table, the Empty relation, no relation set,
\* a table with no name
FromTable ==
    [relation |-> Some([relation |-> Some(TableFactorBuilder("Table",
        [TableRelationBuilder_create_empty EXCEPT !.name = Some(<<"t">>)]))]),
     joins |-> <<>>]
FromEmpty ==
    [relation |-> Some([relation |-> Some(TableFactorBuilder("Empty", None))]),
     joins |-> <<>>]
FromNoRelation == TableWithJoinsBuilder_create_empty
FromNoName ==
    [relation |-> Some([relation |-> Some(TableFactorBuilder("Table",
        TableRelationBuilder_create_empty))]),
     joins |-> <<>>]
\* and an UNNEST relation with a join
FromItems ==
    {FromTable, FromEmpty, FromNoRelation, FromNoName,
     [relation |-> Some([relation |-> Some(TableFactorBuilder("Unnest",
          UnnestRelationBuilder_create_empty))]),
      joins |-> <<[join |-> "j1"]>>]}

\* ast::TableAlias
TableAlias(name) == [name |-> Ident(name, None), columns |-> <<>>]

\* the relations given to RelationBuilder::table, derived and unnest, and
\* Empty for RelationBuilder::empty: builders with and without their
\* required fields and alias
TableFactorBuilders ==
    LET t == [TableRelationBuilder_create_empty EXCEPT !.name = Some(<<"t">>)]
        d == [DerivedRelationBuilder_create_empty EXCEPT
                  !.lateral = Some(FALSE),
                  !.subquery = Some(Query(None, SetExprOther("Values"), None, None))]
    IN  {TableFactorBuilder("Table", t),
         TableFactorBuilder("Table", [t EXCEPT !.alias = Some(TableAlias("x"))]),
         TableFactorBuilder("Table", TableRelationBuilder_create_empty),
         TableFactorBuilder("Derived", [d EXCEPT !.alias = Some(TableAlias("x"))]),
         TableFactorBuilder("Derived", [d EXCEPT !.lateral = None]),
         TableFactorBuilder("Unnest", UnnestRelationBuilder_create_empty),
         TableFactorBuilder("Empty", None)}

\* the setters of the three relation builders, and what they store in the
\* field of their name: name, lateral and subquery store Some(value), the
\* others their argument
RelationValues ==
    LET a == SqlIdentifier(Ident("a", None))
        aliases == {None, Some(TableAlias("x"))}
    IN  [TableRelationBuilder |->
             [name |-> {Some(<<"t">>)},
              alias |-> aliases,
              args |-> {None, Some(<<>>)},
              with_hints |-> {<<>>, <<a>>},
              version |-> {None, Some([version |-> "ForSystemTimeAsOf"])},
              partitions |-> {<<>>, <<Ident("p", None)>>},
              index_hints |-> {<<>>, <<[hint_type |-> "Use"]>>}],
         DerivedRelationBuilder |->
             [lateral |-> {Some(FALSE), Some(TRUE)},
              subquery |-> {Some(Query(None, SetExprOther("Values"), None, None))},
              alias |-> aliases],
         UnnestRelationBuilder |->
             [alias |-> aliases,
              array_exprs |-> {<<>>, <<a>>},
              with_offset |-> BOOLEAN,
              with_offset_alias |-> {None, Some(Ident("o", None))},
              with_ordinality |-> BOOLEAN]]

\* the setters of QueryBuilder that store their argument in the field of
\* their name, and the arguments they are given
QueryBuilderValues ==
    [with |-> {None, Some(With(<<"x">>))},
     limit |-> {None, Some(SqlValue(1))},
     limit_by |-> {<<>>, <<SqlValue(1)>>, <<SqlIdentifier(Ident("a", None))>>},
     offset |-> {None, Some(Offset(SqlValue(0)))},
     fetch |-> {None, Some([quantity |-> Some(SqlValue(1)), with_ties |-> FALSE])},
     locks |-> {<<>>, <<[lock_type |-> "Update"]>>},
     for_clause |-> {None, Some([for_clause |-> "Browse"])}]

\* the setters of SelectBuilder that store their argument in the field of
\* their name, and the arguments they are given
SelectBuilderValues ==
    LET a == SqlIdentifier(Ident("a", None))
        b == SqlIdentifier(Ident("b", None))
    IN  [distinct |-> {Some([distinct |-> "Distinct"])},
         top |-> {Some([quantity |-> Some(SqlValue(1))])},
         projection |-> {<<>>, <<[item |-> "UnnamedExpr", expr |-> a]>>,
                         <<[item |-> "UnnamedExpr", expr |-> a],
                           [item |-> "UnnamedExpr", expr |-> b]>>},
         into |-> {Some(SelectInto(<<"t">>, FALSE))},
         from |-> SeqUpTo(FromItems, 1),
         lateral_views |-> {<<[lateral_view_name |-> <<"v">>]>>},
         cluster_by |-> {<<a>>},
         distribute_by |-> {<<a>>},
         sort_by |-> {<<a>>},
         having |-> {None, Some(a)},
         named_window |-> {<<[window |-> "w"]>>},
         qualify |-> {Some(a)},
         value_table_mode |-> {Some([mode |-> "AsStruct"])}]

\* SelectBuilder { group_by: None, .. } and SelectBuilder { flavor: None, .. }:
\* the values with a required field cleared
ClearedSelectBuilders ==
    {[SelectBuilder_create_empty EXCEPT !.group_by = g, !.flavor = f] :
        g \in {None, SelectBuilder_create_empty.group_by},
        f \in {None, SelectBuilder_create_empty.flavor}}
    \ {SelectBuilder_create_empty}

(***************************************************************************)
(* State.                                                                  *)
(***************************************************************************)
VARIABLES
    pc,          \* position inside query_to_plan; "idle" between calls, "called"
                 \* after a helper was called on its own
    query,       \* the query being planned
    outer_ctx,   \* outer_planner_context: the caller's CTE names
    ctx,         \* query_plan_context: the clone the call plans with
    into,        \* the detached SELECT INTO target
    guard,       \* whether the StackGuard is held
    pending,     \* the result of set_expr_to_plan, before the ? operator
    plan,        \* the plan in progress
    oby,         \* oby_exprs, then order_by_rex
    result,      \* what query_to_plan returned
    trace,       \* the calls made so far, with their results
    call,        \* the last call of limit, order_by, select_into or
                 \* to_order_by_exprs_with_select, with its arguments
    ret          \* and its result

\* the builder a caller of unparser/ast.rs is driving
VARIABLES
    cur,         \* which builder the caller holds: "none", "QueryBuilder",
                 \* "SelectBuilder::default()", "SelectBuilder { .. }" or the
                 \* type of rel
    qb,          \* the QueryBuilder
    sb,          \* the SelectBuilder
    ncalls,      \* the mutating calls made on the builder so far
    last_body,   \* the body last given to QueryBuilder::body and not taken since
    selections,  \* the arguments of the calls of SelectBuilder::selection so far,
                 \* with a mark where replace_mark was called
    rel          \* the TableWithJoinsBuilder, RelationBuilder, TableRelationBuilder,
                 \* DerivedRelationBuilder or UnnestRelationBuilder the caller holds

builders == <<cur, qb, sb, ncalls, last_body, selections, rel>>

vars == <<pc, query, outer_ctx, ctx, into, guard, pending, plan, oby, result,
          trace, call, ret, builders>>

NoCall == [fn |-> "none"]
NoQuery == Query(None, SetExprOther("none"), None, None)

Init ==
    /\ pc = "idle"
    /\ query = NoQuery
    /\ outer_ctx \in {{}, {"x"}}
    /\ ctx = {}
    /\ into = None
    /\ guard = FALSE
    /\ pending = None
    /\ plan = None
    /\ oby = <<>>
    /\ result = None
    /\ trace = <<>>
    /\ call = NoCall
    /\ ret = None
    /\ cur = "none"
    /\ qb = QueryBuilder_create_empty
    /\ sb = SelectBuilder_create_empty
    /\ ncalls = 0
    /\ last_body = None
    /\ selections = <<>>
    /\ rel = RelationBuilder_create_empty

Step(name, out) == [step |-> name, out |-> out]

(***************************************************************************)
(* query.rs: query_to_plan, one action per statement.                      *)
(***************************************************************************)
\* return r to the caller: the clone of the context is dropped with the frame
Returned(r) ==
    /\ result' = Some(r)
    /\ pc' = "done"

\* query_to_plan(query, outer_planner_context): the context is cloned
Enter(q) ==
    /\ pc = "idle"
    /\ pc' = "with"
    /\ query' = q
    /\ ctx' = outer_ctx
    /\ into' = None
    /\ guard' = FALSE
    /\ pending' = None
    /\ plan' = None
    /\ oby' = <<>>
    /\ result' = None
    /\ trace' = <<>>
    /\ call' = NoCall
    /\ ret' = None
    /\ UNCHANGED outer_ctx
    /\ UNCHANGED builders

\* the WITH clause resolved into the caller's context as well
PlanWithClause_IntoOuter ==
    /\ pc = "with"
    /\ IF IsSome(query.with)
       THEN LET r == plan_with_clause(query.with.val.cte_tables, ctx)
            IN  /\ ctx' = r.ctx
                /\ outer_ctx' = r.ctx
                /\ trace' = Append(trace, Step("plan_with_clause", r.res))
                /\ IF IsErr(r.res) THEN Returned(r.res)
                   ELSE pc' = "body" /\ UNCHANGED result
       ELSE pc' = "body" /\ UNCHANGED <<ctx, outer_ctx, trace, result>>
    /\ UNCHANGED <<query, into, guard, pending, plan, oby, call, ret>>
    /\ UNCHANGED builders

\* if let Some(with) = query.with { self.plan_with_clause(with, ctx)?; }
PlanWithClause ==
    /\ pc = "with"
    /\ IF IsSome(query.with)
       THEN LET r == plan_with_clause(query.with.val.cte_tables, ctx)
            IN  /\ ctx' = r.ctx
                /\ trace' = Append(trace, Step("plan_with_clause", r.res))
                /\ IF IsErr(r.res) THEN Returned(r.res)
                   ELSE pc' = "body" /\ UNCHANGED result
       ELSE pc' = "body" /\ UNCHANGED <<ctx, trace, result>>
    /\ UNCHANGED <<query, outer_ctx, into, guard, pending, plan, oby, call, ret>>
    /\ UNCHANGED builders

\* SetExpr::Select(mut select): select.into.take(), then select_to_plan(..)?
SelectToPlan ==
    /\ pc = "body"
    /\ query.body.kind = "Select"
    /\ LET sel == [query.body.select EXCEPT !.into = None]
           r == select_to_plan(sel, query.order_by, ctx)
       IN  /\ into' = query.body.select.into
           /\ trace' = Append(trace, Step("select_to_plan", r))
           /\ IF IsErr(r) THEN Returned(r) /\ UNCHANGED plan
              ELSE plan' = Some(r.val) /\ pc' = "select_limit" /\ UNCHANGED result
    /\ UNCHANGED <<query, outer_ctx, ctx, guard, pending, oby, call, ret>>
    /\ UNCHANGED builders

\* the SELECT branch with select_into applied before limit
SelectLimit_IntoFirst ==
    /\ pc = "select_limit"
    /\ LET r1 == select_into(plan.val, into)
           r2 == IF IsErr(r1) THEN r1 ELSE limit(r1.val, query.limit_clause)
       IN  /\ call' = [fn |-> "select_into", plan |-> plan.val, select_into |-> into]
           /\ ret' = r1
           /\ trace' = IF IsErr(r1) THEN Append(trace, Step("select_into", r1))
                       ELSE trace \o <<Step("select_into", r1), Step("limit", r2)>>
           /\ Returned(r2)
    /\ UNCHANGED <<query, outer_ctx, ctx, into, guard, pending, plan, oby>>
    /\ UNCHANGED builders

\* let plan = self.limit(plan, query.limit_clause, ctx)?;
SelectLimit ==
    /\ pc = "select_limit"
    /\ LET r == limit(plan.val, query.limit_clause)
       IN  /\ call' = [fn |-> "limit", input |-> plan.val,
                       limit_clause |-> query.limit_clause]
           /\ ret' = r
           /\ trace' = Append(trace, Step("limit", r))
           /\ IF IsErr(r) THEN Returned(r) /\ UNCHANGED plan
              ELSE plan' = Some(r.val) /\ pc' = "select_into" /\ UNCHANGED result
    /\ UNCHANGED <<query, outer_ctx, ctx, into, guard, pending, oby>>
    /\ UNCHANGED builders

\* self.select_into(plan, select_into)
SelectIntoStep ==
    /\ pc = "select_into"
    /\ LET r == select_into(plan.val, into)
       IN  /\ call' = [fn |-> "select_into", plan |-> plan.val, select_into |-> into]
           /\ ret' = r
           /\ trace' = Append(trace, Step("select_into", r))
           /\ Returned(r)
    /\ UNCHANGED <<query, outer_ctx, ctx, into, guard, pending, plan, oby>>
    /\ UNCHANGED builders

\* other => { let _guard = StackGuard::new(256 * 1024);
GuardNew ==
    /\ pc = "body"
    /\ query.body.kind # "Select"
    /\ guard' = TRUE
    /\ pc' = "set_expr"
    /\ trace' = Append(trace, Step("StackGuard::new", Ok(None)))
    /\ UNCHANGED <<query, outer_ctx, ctx, into, pending, plan, oby, result, call, ret>>
    /\ UNCHANGED builders

\* self.set_expr_to_plan(other, ctx)
SetExprToPlan ==
    /\ pc = "set_expr"
    /\ LET r == set_expr_to_plan(query.body, ctx)
       IN  /\ pending' = Some(r)
           /\ trace' = Append(trace, Step("set_expr_to_plan", r))
    /\ pc' = "guard_drop"
    /\ UNCHANGED <<query, outer_ctx, ctx, into, guard, plan, oby, result, call, ret>>
    /\ UNCHANGED builders

\* the guard released only when the set expression was planned
GuardDrop_OnSuccessOnly ==
    /\ pc = "guard_drop"
    /\ guard' = IsErr(pending.val)
    /\ pending' = None
    /\ trace' = Append(trace, Step("drop(_guard)", Ok(None)))
    /\ IF IsErr(pending.val) THEN Returned(pending.val) /\ UNCHANGED plan
       ELSE plan' = Some(pending.val.val) /\ pc' = "order_by_exprs" /\ UNCHANGED result
    /\ UNCHANGED <<query, outer_ctx, ctx, into, oby, call, ret>>
    /\ UNCHANGED builders

\* }?; the scope ends, _guard is dropped, then ? looks at the result
GuardDrop ==
    /\ pc = "guard_drop"
    /\ guard' = FALSE
    /\ pending' = None
    /\ trace' = Append(trace, Step("drop(_guard)", Ok(None)))
    /\ IF IsErr(pending.val) THEN Returned(pending.val) /\ UNCHANGED plan
       ELSE plan' = Some(pending.val.val) /\ pc' = "order_by_exprs" /\ UNCHANGED result
    /\ UNCHANGED <<query, outer_ctx, ctx, into, oby, call, ret>>
    /\ UNCHANGED builders

\* let oby_exprs = to_order_by_exprs(query.order_by)?;
ToOrderByExprs ==
    /\ pc = "order_by_exprs"
    /\ LET r == to_order_by_exprs(query.order_by)
       IN  /\ call' = [fn |-> "to_order_by_exprs_with_select",
                       order_by |-> query.order_by, select_exprs |-> None]
           /\ ret' = r
           /\ trace' = Append(trace, Step("to_order_by_exprs", r))
           /\ IF IsErr(r) THEN Returned(r) /\ UNCHANGED oby
              ELSE oby' = r.val /\ pc' = "sort_exprs" /\ UNCHANGED result
    /\ UNCHANGED <<query, outer_ctx, ctx, into, guard, pending, plan>>
    /\ UNCHANGED builders

\* the set-expression branch going on without a sort when the sort
\* expressions cannot be planned
OrderByToSortExpr_SkipsFailure ==
    /\ pc = "sort_exprs"
    /\ LET r == order_by_to_sort_expr(oby, Schema(plan.val))
       IN  /\ trace' = Append(trace, Step("order_by_to_sort_expr", r))
           /\ oby' = IF IsErr(r) THEN <<>> ELSE r.val
           /\ pc' = "order_by"
           /\ UNCHANGED result
    /\ UNCHANGED <<query, outer_ctx, ctx, into, guard, pending, plan, call, ret>>
    /\ UNCHANGED builders

\* let order_by_rex = self.order_by_to_sort_expr(oby_exprs, plan.schema(), ..)?;
OrderByToSortExpr ==
    /\ pc = "sort_exprs"
    /\ LET r == order_by_to_sort_expr(oby, Schema(plan.val))
       IN  /\ trace' = Append(trace, Step("order_by_to_sort_expr", r))
           /\ IF IsErr(r) THEN Returned(r) /\ UNCHANGED oby
              ELSE oby' = r.val /\ pc' = "order_by" /\ UNCHANGED result
    /\ UNCHANGED <<query, outer_ctx, ctx, into, guard, pending, plan, call, ret>>
    /\ UNCHANGED builders

\* let plan = self.order_by(plan, order_by_rex)?;
OrderByStep ==
    /\ pc = "order_by"
    /\ LET r == order_by(plan.val, oby)
       IN  /\ call' = [fn |-> "order_by", plan |-> plan.val, order_by |-> oby]
           /\ ret' = r
           /\ trace' = Append(trace, Step("order_by", r))
           /\ IF IsErr(r) THEN Returned(r) /\ UNCHANGED plan
              ELSE plan' = Some(r.val) /\ pc' = "set_limit" /\ UNCHANGED result
    /\ UNCHANGED <<query, outer_ctx, ctx, into, guard, pending, oby>>
    /\ UNCHANGED builders

\* the set-expression branch with the sort applied once more after limit
SetLimit_ThenOrderBy ==
    /\ pc = "set_limit"
    /\ LET r1 == limit(plan.val, query.limit_clause)
           r2 == IF IsErr(r1) THEN r1 ELSE order_by(r1.val, oby)
       IN  /\ call' = [fn |-> "limit", input |-> plan.val,
                       limit_clause |-> query.limit_clause]
           /\ ret' = r1
           /\ trace' = IF IsErr(r1) THEN Append(trace, Step("limit", r1))
                       ELSE trace \o <<Step("limit", r1), Step("order_by", r2)>>
           /\ Returned(r2)
    /\ UNCHANGED <<query, outer_ctx, ctx, into, guard, pending, plan, oby>>
    /\ UNCHANGED builders

\* self.limit(plan, query.limit_clause, ctx)
SetLimit ==
    /\ pc = "set_limit"
    /\ LET r == limit(plan.val, query.limit_clause)
       IN  /\ call' = [fn |-> "limit", input |-> plan.val,
                       limit_clause |-> query.limit_clause]
           /\ ret' = r
           /\ trace' = Append(trace, Step("limit", r))
           /\ Returned(r)
    /\ UNCHANGED <<query, outer_ctx, ctx, into, guard, pending, plan, oby>>
    /\ UNCHANGED builders

\* the caller takes the result; the frame of the call is gone
Return ==
    /\ pc \in {"done", "called"}
    /\ pc' = "idle"
    /\ query' = NoQuery
    /\ ctx' = {}
    /\ into' = None
    /\ plan' = None
    /\ oby' = <<>>
    /\ result' = None
    /\ trace' = <<>>
    /\ call' = NoCall
    /\ ret' = None
    /\ UNCHANGED <<outer_ctx, guard, pending>>
    /\ UNCHANGED builders

(***************************************************************************)
(* The helpers called on their own, as their other callers and the tests   *)
(* call them.                                                              *)
(***************************************************************************)
idleVars == <<query, outer_ctx, ctx, into, guard, pending, plan, oby, result, trace>>

DoLimit(p, lc) ==
    /\ pc = "idle"
    /\ pc' = "called"
    /\ call' = [fn |-> "limit", input |-> p, limit_clause |-> lc]
    /\ ret' = limit(p, lc)
    /\ UNCHANGED idleVars
    /\ UNCHANGED builders

DoOrderBy(p, sorts) ==
    /\ pc = "idle"
    /\ pc' = "called"
    /\ call' = [fn |-> "order_by", plan |-> p, order_by |-> sorts]
    /\ ret' = order_by(p, sorts)
    /\ UNCHANGED idleVars
    /\ UNCHANGED builders

DoSelectInto(p, i) ==
    /\ pc = "idle"
    /\ pc' = "called"
    /\ call' = [fn |-> "select_into", plan |-> p, select_into |-> i]
    /\ ret' = select_into(p, i)
    /\ UNCHANGED idleVars
    /\ UNCHANGED builders

DoToOrderByExprsWithSelect(ob, sel) ==
    /\ pc = "idle"
    /\ pc' = "called"
    /\ call' = [fn |-> "to_order_by_exprs_with_select", order_by |-> ob,
                select_exprs |-> sel]
    /\ ret' = to_order_by_exprs_with_select(ob, sel)
    /\ UNCHANGED idleVars
    /\ UNCHANGED builders

OptSelectExprLists ==
    {None} \cup {Some(l) : l \in SeqUpTo(SelectExprs, MaxSelectExprs)}

\* a caller, between calls, calls query_to_plan or one of the helpers
CallQueryToPlan ==
    pc = "idle" /\ \E q \in Queries : Enter(q)

CallLimit ==
    pc = "idle" /\ \E p \in Plans, lc \in OptLimitClauses : DoLimit(p, lc)

CallOrderBy ==
    pc = "idle" /\ \E p \in Plans, sorts \in SeqUpTo(SortExprs, MaxOrderBy) :
                        DoOrderBy(p, sorts)

CallSelectInto ==
    pc = "idle" /\ \E p \in Plans, i \in OptSelectIntos : DoSelectInto(p, i)

CallToOrderByExprsWithSelect ==
    pc = "idle" /\ \E ob \in OptOrderBys, sel \in OptSelectExprLists :
                        DoToOrderByExprsWithSelect(ob, sel)

Next ==
    \/ CallQueryToPlan
    \/ CallLimit
    \/ CallOrderBy
    \/ CallSelectInto
    \/ CallToOrderByExprsWithSelect
    \/ PlanWithClause
    \/ SelectToPlan
    \/ SelectLimit
    \/ SelectIntoStep
    \/ GuardNew
    \/ SetExprToPlan
    \/ GuardDrop
    \/ ToOrderByExprs
    \/ OrderByToSortExpr
    \/ OrderByStep
    \/ SetLimit
    \/ Return

Spec == Init /\ [][Next]_vars

(***************************************************************************)
(* unparser/ast.rs: a caller drives one builder at a time, from its        *)
(* creation, through calls of its methods, to the time it lets go of it.   *)
(***************************************************************************)
\* QueryBuilder::default()
NewQueryBuilder ==
    /\ cur = "none"
    /\ cur' = "QueryBuilder"
    /\ qb' = QueryBuilder_create_empty
    /\ UNCHANGED <<sb, ncalls, last_body, selections, call, ret, rel, pc, idleVars>>

\* a method of the QueryBuilder that returns the builder
QuerySetter(after) ==
    /\ cur = "QueryBuilder"
    /\ ncalls < MaxCalls
    /\ qb' = after
    /\ ncalls' = ncalls + 1
    /\ call' = NoCall
    /\ ret' = None
    /\ UNCHANGED <<cur, sb, selections, rel, pc, idleVars>>

\* with, limit, limit_by, offset, fetch, locks, for_clause: self.field = value
CallQueryBuilderSet ==
    \E field \in DOMAIN QueryBuilderValues :
        \E value \in QueryBuilderValues[field] :
            /\ QuerySetter([qb EXCEPT ![field] = value])
            /\ UNCHANGED last_body

CallQueryBuilderBody ==
    \E value \in {SetExprOther("Values"), SetExprOther("SetOperation")} :
        /\ QuerySetter(QueryBuilder_body(qb, value))
        /\ last_body' = Some(value)

CallQueryBuilderTakeBody ==
    /\ cur = "QueryBuilder"
    /\ ncalls < MaxCalls
    /\ qb' = QueryBuilder_take_body(qb).self
    /\ ncalls' = ncalls + 1
    /\ call' = [fn |-> "QueryBuilder::take_body", self |-> qb]
    /\ ret' = QueryBuilder_take_body(qb).ret
    /\ last_body' = None
    /\ UNCHANGED <<cur, sb, selections, rel, pc, idleVars>>

\* order_by: self.order_by_kind = Some(value)
CallQueryBuilderOrderBy ==
    \E value \in {OrderByAll(OrderByOptions(None, None)),
                  OrderByExpressions(<<OrderByExpr(SqlIdentifier(Ident("a", None)),
                                                   OrderByOptions(Some(FALSE), None),
                                                   None)>>)} :
        /\ QuerySetter([qb EXCEPT !.order_by_kind = Some(value)])
        /\ UNCHANGED last_body

\* distinct_union: self.distinct_union = true
CallQueryBuilderDistinctUnion ==
    /\ QuerySetter([qb EXCEPT !.distinct_union = TRUE])
    /\ UNCHANGED last_body

\* a method that reads the builder: is_distinct_union, already_projected, build
Reader(fn, self, out) ==
    /\ call' = [fn |-> fn, self |-> self]
    /\ ret' = out
    /\ UNCHANGED <<cur, qb, sb, ncalls, last_body, selections, rel, pc, idleVars>>

CallQueryBuilderIsDistinctUnion ==
    /\ cur = "QueryBuilder"
    /\ Reader("QueryBuilder::is_distinct_union", qb, Some([bool |-> qb.distinct_union]))

\* build(&self): the finalizer borrows the builder, which stays with the
\* caller, every field as it was
CallQueryBuilderBuild ==
    /\ cur = "QueryBuilder"
    /\ Reader("QueryBuilder::build", qb, QueryBuilder_build(qb))

\* query_to_plan hands the limit clause of the query to limit: here the
\* query is the one QueryBuilder::build has just returned
CallLimitOfBuiltQuery ==
    /\ cur = "QueryBuilder"
    /\ call.fn = "QueryBuilder::build"
    /\ IsOk(ret)
    /\ \E p \in {TableScan("t"), Values(1)} :
          /\ call' = [fn |-> "limit", input |-> p, limit_clause |-> ret.val.limit_clause]
          /\ ret' = limit(p, ret.val.limit_clause)
    /\ UNCHANGED <<cur, qb, sb, ncalls, last_body, selections, rel, pc, idleVars>>

\* SelectBuilder::default()
NewSelectBuilder ==
    /\ cur = "none"
    /\ cur' = "SelectBuilder::default()"
    /\ sb' = SelectBuilder_create_empty
    /\ UNCHANGED <<qb, ncalls, last_body, selections, call, ret, rel, pc, idleVars>>

\* SelectBuilder { .. } written out inside the module, a required field None
NewClearedSelectBuilder ==
    /\ cur = "none"
    /\ cur' = "SelectBuilder { .. }"
    /\ sb' \in ClearedSelectBuilders
    /\ UNCHANGED <<qb, ncalls, last_body, selections, call, ret, rel, pc, idleVars>>

SelectBuilderHeld == cur \in {"SelectBuilder::default()", "SelectBuilder { .. }"}

\* a method of the SelectBuilder that returns the builder
SelectSetter(after) ==
    /\ SelectBuilderHeld
    /\ ncalls < MaxCalls
    /\ sb' = after
    /\ ncalls' = ncalls + 1
    /\ call' = NoCall
    /\ ret' = None
    /\ UNCHANGED <<cur, qb, last_body, rel, pc, idleVars>>

\* distinct, top, projection, into, from, lateral_views, cluster_by,
\* distribute_by, sort_by, having, named_window, qualify, value_table_mode:
\* self.field = value
CallSelectBuilderSet ==
    \E field \in DOMAIN SelectBuilderValues :
        \E value \in SelectBuilderValues[field] :
            /\ SelectSetter([sb EXCEPT ![field] = value])
            /\ UNCHANGED selections

\* pop_projections: the projection is returned and cleared
CallSelectBuilderPopProjections ==
    /\ SelectBuilderHeld
    /\ ncalls < MaxCalls
    /\ sb' = SelectBuilder_pop_projections(sb).self
    /\ ncalls' = ncalls + 1
    /\ call' = [fn |-> "SelectBuilder::pop_projections", self |-> sb]
    /\ ret' = Some(SelectBuilder_pop_projections(sb).ret)
    /\ UNCHANGED <<cur, qb, last_body, selections, rel, pc, idleVars>>

\* already_projected: !self.projection.is_empty()
CallSelectBuilderAlreadyProjected ==
    /\ SelectBuilderHeld
    /\ Reader("SelectBuilder::already_projected", sb,
              Some([bool |-> sb.projection # <<>>]))

\* push_from: self.from.push(value)
CallSelectBuilderPushFrom ==
    /\ SelectBuilderHeld
    /\ ncalls < MaxCalls
    /\ Len(sb.from) < MaxFrom
    /\ \E value \in FromItems :
          /\ sb' = [sb EXCEPT !.from = Append(@, value)]
          /\ call' = [fn |-> "SelectBuilder::push_from", self |-> sb, value |-> value]
    /\ ncalls' = ncalls + 1
    /\ ret' = None
    /\ UNCHANGED <<cur, qb, last_body, selections, rel, pc, idleVars>>

\* pop_from: self.from.pop()
CallSelectBuilderPopFrom ==
    /\ SelectBuilderHeld
    /\ ncalls < MaxCalls
    /\ sb' = SelectBuilder_pop_from(sb).self
    /\ ncalls' = ncalls + 1
    /\ call' = [fn |-> "SelectBuilder::pop_from", self |-> sb]
    /\ ret' = Some(SelectBuilder_pop_from(sb).ret)
    /\ UNCHANGED <<cur, qb, last_body, selections, rel, pc, idleVars>>

CallSelectBuilderSelection ==
    \E value \in OptPredicates :
        /\ SelectSetter(SelectBuilder_selection(sb, value))
        /\ selections' = Append(selections, value)

\* replace_mark: the mark of a LEFT MARK join is an identifier or a
\* comparison of two; what takes its place is a new expression, which may
\* hold the mark
CallSelectBuilderReplaceMark ==
    LET a == SqlIdentifier(Ident("a", None))
        b == SqlIdentifier(Ident("b", None))
        m == SqlIdentifier(Ident("m", None))
    IN  \E existing_expr \in {a, b, BinaryOp(a, "And", b)} :
            \E value \in {m, BinaryOp(a, "And", m)} :
                /\ SelectBuilderHeld
                /\ ncalls < MaxCalls
                /\ sb' = SelectBuilder_replace_mark(sb, existing_expr, value)
                /\ ncalls' = ncalls + 1
                /\ call' = [fn |-> "SelectBuilder::replace_mark", self |-> sb,
                            existing_expr |-> existing_expr, value |-> value]
                /\ ret' = None
                /\ selections' = Append(selections, [tag |-> "Mark"])
                /\ UNCHANGED <<cur, qb, last_body, rel, pc, idleVars>>

\* group_by: self.group_by = Some(value)
CallSelectBuilderGroupBy ==
    \E value \in {GroupByExpressions(<<>>, <<>>),
                  GroupByExpressions(<<SqlIdentifier(Ident("a", None))>>, <<>>)} :
        /\ SelectSetter([sb EXCEPT !.group_by = Some(value)])
        /\ UNCHANGED selections

CallSelectBuilderBuild ==
    /\ SelectBuilderHeld
    /\ Reader("SelectBuilder::build", sb, SelectBuilder_build(sb))

\* TableWithJoinsBuilder::default(), RelationBuilder::default() and the
\* default() of the three relation builders
NewFromItemBuilder ==
    LET empty == [TableWithJoinsBuilder |-> TableWithJoinsBuilder_create_empty,
                  RelationBuilder |-> RelationBuilder_create_empty,
                  TableRelationBuilder |-> TableRelationBuilder_create_empty,
                  DerivedRelationBuilder |-> DerivedRelationBuilder_create_empty,
                  UnnestRelationBuilder |-> UnnestRelationBuilder_create_empty]
    IN  /\ cur = "none"
        /\ \E type \in DOMAIN empty :
              /\ cur' = type
              /\ rel' = empty[type]
        /\ UNCHANGED <<qb, sb, ncalls, last_body, selections, call, ret, pc, idleVars>>

\* TableWithJoinsBuilder::relation: self.relation = Some(value)
CallTableWithJoinsBuilderRelation ==
    /\ cur = "TableWithJoinsBuilder"
    /\ ncalls < MaxCalls
    /\ \E value \in {RelationBuilder_create_empty}
                     \cup {[relation |-> Some(f)] : f \in TableFactorBuilders} :
          rel' = [rel EXCEPT !.relation = Some(value)]
    /\ ncalls' = ncalls + 1
    /\ call' = NoCall
    /\ ret' = None
    /\ UNCHANGED <<cur, qb, sb, last_body, selections, pc, idleVars>>

\* TableWithJoinsBuilder::joins: self.joins = value
CallTableWithJoinsBuilderJoins ==
    /\ cur = "TableWithJoinsBuilder"
    /\ ncalls < MaxCalls
    /\ \E value \in {<<>>, <<[join |-> "j1"]>>} :
          rel' = [rel EXCEPT !.joins = value]
    /\ ncalls' = ncalls + 1
    /\ call' = NoCall
    /\ ret' = None
    /\ UNCHANGED <<cur, qb, sb, last_body, selections, pc, idleVars>>

\* TableWithJoinsBuilder::push_join: self.joins.push(value)
CallTableWithJoinsBuilderPushJoin ==
    /\ cur = "TableWithJoinsBuilder"
    /\ ncalls < MaxCalls
    /\ \E value \in {[join |-> "j1"], [join |-> "j2"]} :
          /\ rel' = [rel EXCEPT !.joins = Append(@, value)]
          /\ call' = [fn |-> "TableWithJoinsBuilder::push_join", self |-> rel,
                      value |-> value]
    /\ ncalls' = ncalls + 1
    /\ ret' = None
    /\ UNCHANGED <<cur, qb, sb, last_body, selections, pc, idleVars>>

CallTableWithJoinsBuilderBuild ==
    /\ cur = "TableWithJoinsBuilder"
    /\ call' = [fn |-> "TableWithJoinsBuilder::build", self |-> rel]
    /\ ret' = TableWithJoinsBuilder_build(rel)
    /\ UNCHANGED <<cur, qb, sb, ncalls, last_body, selections, rel, pc, idleVars>>

\* RelationBuilder::table, derived, unnest and empty:
\* self.relation = Some(TableFactorBuilder::Variant(value)).  The call
\* remembers the alias given by the call just before it, if that was alias
CallRelationBuilderSet ==
    LET method == [Table |-> "table", Derived |-> "derived", Unnest |-> "unnest",
                   Empty |-> "empty"]
    IN  /\ cur = "RelationBuilder"
        /\ ncalls < MaxCalls
        /\ \E value \in TableFactorBuilders :
              /\ rel' = [rel EXCEPT !.relation = Some(value)]
              /\ call' = [fn |-> "RelationBuilder::" \o method[value.variant],
                          self |-> rel, value |-> value,
                          alias_before |-> IF call.fn = "RelationBuilder::alias"
                                           THEN Some(call.value) ELSE None]
        /\ ncalls' = ncalls + 1
        /\ ret' = None
        /\ UNCHANGED <<cur, qb, sb, last_body, selections, pc, idleVars>>

CallRelationBuilderAlias ==
    /\ cur = "RelationBuilder"
    /\ ncalls < MaxCalls
    /\ \E value \in {None, Some(TableAlias("y"))} :
          /\ rel' = RelationBuilder_alias(rel, value)
          /\ call' = [fn |-> "RelationBuilder::alias", self |-> rel, value |-> value]
    /\ ncalls' = ncalls + 1
    /\ ret' = None
    /\ UNCHANGED <<cur, qb, sb, last_body, selections, pc, idleVars>>

\* has_relation: self.relation.is_some()
CallRelationBuilderHasRelation ==
    /\ cur = "RelationBuilder"
    /\ call' = [fn |-> "RelationBuilder::has_relation", self |-> rel]
    /\ ret' = Some([bool |-> IsSome(rel.relation)])
    /\ UNCHANGED <<cur, qb, sb, ncalls, last_body, selections, rel, pc, idleVars>>

CallRelationBuilderBuild ==
    /\ cur = "RelationBuilder"
    /\ call' = [fn |-> "RelationBuilder::build", self |-> rel]
    /\ ret' = RelationBuilder_build(rel)
    /\ UNCHANGED <<cur, qb, sb, ncalls, last_body, selections, rel, pc, idleVars>>

\* the setters of TableRelationBuilder, DerivedRelationBuilder and
\* UnnestRelationBuilder
CallRelationSet ==
    /\ cur \in DOMAIN RelationValues
    /\ ncalls < MaxCalls
    /\ \E field \in DOMAIN RelationValues[cur] :
          \E value \in RelationValues[cur][field] :
              rel' = [rel EXCEPT ![field] = value]
    /\ ncalls' = ncalls + 1
    /\ call' = NoCall
    /\ ret' = None
    /\ UNCHANGED <<cur, qb, sb, last_body, selections, pc, idleVars>>

\* TableRelationBuilder::build, DerivedRelationBuilder::build and
\* UnnestRelationBuilder::build
CallRelationBuild ==
    /\ cur \in DOMAIN RelationValues
    /\ call' = [fn |-> cur \o "::build", self |-> rel]
    /\ ret' = CASE cur = "TableRelationBuilder" -> TableRelationBuilder_build(rel)
                [] cur = "DerivedRelationBuilder" -> DerivedRelationBuilder_build(rel)
                [] OTHER -> UnnestRelationBuilder_build(rel)
    /\ UNCHANGED <<cur, qb, sb, ncalls, last_body, selections, rel, pc, idleVars>>

\* the caller lets go of the builder
DropBuilder ==
    /\ cur # "none"
    /\ cur' = "none"
    /\ qb' = QueryBuilder_create_empty
    /\ sb' = SelectBuilder_create_empty
    /\ ncalls' = 0
    /\ last_body' = None
    /\ selections' = <<>>
    /\ rel' = RelationBuilder_create_empty
    /\ call' = NoCall
    /\ ret' = None
    /\ UNCHANGED <<pc, idleVars>>

BuilderNext ==
    \/ NewQueryBuilder
    \/ CallQueryBuilderSet
    \/ CallQueryBuilderBody
    \/ CallQueryBuilderTakeBody
    \/ CallQueryBuilderOrderBy
    \/ CallQueryBuilderDistinctUnion
    \/ CallQueryBuilderIsDistinctUnion
    \/ CallQueryBuilderBuild
    \/ CallLimitOfBuiltQuery
    \/ NewSelectBuilder
    \/ NewClearedSelectBuilder
    \/ CallSelectBuilderSet
    \/ CallSelectBuilderPopProjections
    \/ CallSelectBuilderAlreadyProjected
    \/ CallSelectBuilderPushFrom
    \/ CallSelectBuilderPopFrom
    \/ CallSelectBuilderSelection
    \/ CallSelectBuilderReplaceMark
    \/ CallSelectBuilderGroupBy
    \/ CallSelectBuilderBuild
    \/ NewFromItemBuilder
    \/ CallTableWithJoinsBuilderRelation
    \/ CallTableWithJoinsBuilderJoins
    \/ CallTableWithJoinsBuilderPushJoin
    \/ CallTableWithJoinsBuilderBuild
    \/ CallRelationBuilderSet
    \/ CallRelationBuilderAlias
    \/ CallRelationBuilderHasRelation
    \/ CallRelationBuilderBuild
    \/ CallRelationSet
    \/ CallRelationBuild
    \/ DropBuilder

\* the planner is at rest while the builders are driven
BuilderInit == Init /\ outer_ctx = {}

BuilderSpec == BuilderInit /\ [][BuilderNext]_vars


(***************************************************************************)
(* Properties.                                                             *)
(***************************************************************************)
HasStep(n) == \E i \in 1..Len(trace) : trace[i].step = n
StepIndex(n) == CHOOSE i \in 1..Len(trace) : trace[i].step = n
StepOut(n) == trace[StepIndex(n)].out
LastStep == trace[Len(trace)]

\* the call has returned a plan
ReturnedPlan == pc = "done" /\ IsOk(result.val)
\* limit ran in this call and put a Limit node on its input
LimitProduced ==
    /\ HasStep("limit")
    /\ IsOk(StepOut("limit"))
    /\ StepOut("limit").val # trace[StepIndex("limit") - 1].out.val

\* C1: for a SELECT body with an INTO target, select_into runs strictly
\* after limit: whenever the limit clause produces a Limit node, the plan
\* returned has the CreateMemoryTable node as its root, the Limit node as
\* that node's input, and the delegated SELECT plan as the Limit node's
\* input; the Limit node is never above the CreateMemoryTable node.
C1_SelectIntoAfterLimit ==
    (/\ pc = "done"
     /\ query.body.kind = "Select"
     /\ IsSome(query.body.select.into)
     /\ LimitProduced)
    => /\ HasStep("select_into")
       /\ StepIndex("limit") < StepIndex("select_into")
       /\ StepOut("limit").val.node = "Limit"
       /\ StepOut("limit").val.input = StepOut("select_to_plan").val
       /\ IsOk(result.val) =>
            /\ result.val.val.node = "CreateMemoryTable"
            /\ result.val.val.input = StepOut("limit").val

C1_Witness ==
    /\ ReturnedPlan
    /\ query.body.kind = "Select"
    /\ IsSome(query.body.select.into)
    /\ LimitProduced
    /\ result.val.val.node = "CreateMemoryTable"
    /\ result.val.val.input.node = "Limit"

\* the set-expression branch ran with a non-empty sort list and a limit
\* clause that produced a Limit node, and the call returned a plan
C2_Case ==
    /\ ReturnedPlan
    /\ query.body.kind # "Select"
    /\ HasStep("order_by_to_sort_expr")
    /\ StepOut("order_by_to_sort_expr").val # <<>>
    /\ LimitProduced

\* C2 as stated: on the set-expression branch, with a non-empty ORDER BY and
\* a limit that produces a Limit node, the Limit node is the root and its
\* input is the Sort node, or the Distinct-On node carrying the sort list,
\* and the input of that node is the set-expression plan.
C2_Original ==
    C2_Case =>
        LET root == result.val.val
            rex == StepOut("order_by_to_sort_expr").val
        IN  /\ root.node = "Limit"
            /\ \/ root.input.node = "Sort" /\ root.input.expr = rex
               \/ root.input.node = "DistinctOn" /\ root.input.sort_expr = Some(rex)
            /\ root.input.input = StepOut("set_expr_to_plan").val

\* C2 (amended): on the set-expression branch order_by wraps first and limit
\* second: the Limit node is the root, and its input is either a Sort node
\* carrying the sort list whose input is the set-expression plan, or, when
\* the root of the set-expression plan is a Distinct-On node, that same node
\* with the sort list attached.
C2_OrderByThenLimit ==
    C2_Case =>
        LET root == result.val.val
            rex == StepOut("order_by_to_sort_expr").val
            body == StepOut("set_expr_to_plan").val
        IN  /\ StepIndex("order_by") < StepIndex("limit")
            /\ root.node = "Limit"
            /\ IF body.node = "DistinctOn"
               THEN root.input = [body EXCEPT !.sort_expr = Some(rex)]
               ELSE /\ root.input.node = "Sort"
                    /\ root.input.expr = rex
                    /\ root.input.input = body

C2_Witness ==
    /\ C2_Case
    /\ result.val.val.node = "Limit"
    /\ result.val.val.input.node = "DistinctOn"
    /\ result.val.val.input.sort_expr = Some(StepOut("order_by_to_sort_expr").val)

\* C3 as stated: limit is the last wrapping step on whichever branch ran, no
\* other wrap is applied to the plan after limit returns: the plan returned
\* is the plan limit returned.
C3_Original ==
    (ReturnedPlan /\ HasStep("limit")) => result.val.val = StepOut("limit").val

\* C3 (amended): exactly one of the two branches runs per call; on the
\* set-expression branch limit is the last step, and on the SELECT branch
\* limit is followed by select_into alone, so the plan returned is the plan
\* limit returned or, with an INTO target, the CreateMemoryTable node over it.
C3_OneBranchLimitLastWrap ==
    /\ ~(HasStep("select_to_plan") /\ HasStep("set_expr_to_plan"))
    /\ pc = "done" =>
        /\ (HasStep("select_to_plan") \/ HasStep("set_expr_to_plan"))
                <=> LastStep.step # "plan_with_clause"
        /\ HasStep("select_to_plan") => query.body.kind = "Select"
        /\ HasStep("set_expr_to_plan") => query.body.kind # "Select"
        /\ HasStep("limit") =>
            /\ \A i \in 1..Len(trace) :
                    i > StepIndex("limit") =>
                        /\ trace[i].step = "select_into"
                        /\ HasStep("select_to_plan")
                        /\ i = Len(trace)
            /\ IsOk(result.val) =>
                IF HasStep("select_to_plan") /\ IsSome(query.body.select.into)
                THEN /\ result.val.val.node = "CreateMemoryTable"
                     /\ result.val.val.input = StepOut("limit").val
                ELSE result.val.val = StepOut("limit").val

C3_Witness ==
    /\ ReturnedPlan
    /\ HasStep("set_expr_to_plan")
    /\ LastStep.step = "limit"
    /\ result.val.val.node = "Limit"

\* the query has no WITH, no ORDER BY and no LIMIT clause, and the delegated
\* planner of its body returned a plan
C4_Case ==
    /\ pc = "done"
    /\ IsNone(query.with)
    /\ IsNone(query.order_by)
    /\ IsNone(query.limit_clause)
    /\ \/ HasStep("select_to_plan") /\ IsOk(StepOut("select_to_plan"))
       \/ HasStep("set_expr_to_plan") /\ IsOk(StepOut("set_expr_to_plan"))

\* the plan the delegated planner of the body returned
Delegated ==
    IF HasStep("select_to_plan") THEN StepOut("select_to_plan")
    ELSE StepOut("set_expr_to_plan")

\* C4 as stated: a query with no WITH, no ORDER BY and no LIMIT clause
\* returns exactly the plan of the delegated planner, for both body shapes.
C4_Original == C4_Case => result.val = Delegated

\* C4 (amended): a query with no WITH, no ORDER BY and no LIMIT clause, and
\* with no INTO target on a SELECT body, returns exactly the plan of the
\* delegated planner, with no node wrapped around it, for both body shapes.
C4_NoClausesNoWrap ==
    (C4_Case /\ (query.body.kind = "Select" => IsNone(query.body.select.into)))
    => result.val = Delegated

C4_Witness ==
    /\ C4_Case
    /\ query.body.kind = "Select"
    /\ IsNone(query.body.select.into)
    /\ ReturnedPlan
    /\ result.val.val.node = "Projection"

\* limit was called with no clause, or with the keyword form holding no
\* limit, no offset and no LIMIT BY
C5_NoLimit ==
    \/ IsNone(call.limit_clause)
    \/ /\ call.limit_clause.val.kind = "LimitOffset"
       /\ IsNone(call.limit_clause.val.limit)
       /\ IsNone(call.limit_clause.val.offset)
       /\ call.limit_clause.val.limit_by = <<>>

\* the skip and the fetch a limit clause resolves to
C5_Skip(lc) ==
    IF lc.kind = "OffsetCommaLimit" THEN Some(sql_to_expr(lc.offset).val)
    ELSE IF IsNone(lc.offset) THEN None
    ELSE Some(sql_to_expr(lc.offset.val.value).val)
C5_Fetch(lc) ==
    IF lc.kind = "OffsetCommaLimit" THEN Some(sql_to_expr(lc.limit).val)
    ELSE IF IsNone(lc.limit) THEN None
    ELSE Some(sql_to_expr(lc.limit.val).val)

\* C5: limit returns its input unchanged when the limit clause is absent or
\* is the keyword form with no limit, no offset and an empty LIMIT BY list;
\* in every other successful case the result is a Limit node over the input
\* carrying the resolved skip and fetch.
C5_LimitNoopOrLimitNode ==
    call.fn = "limit" =>
        IF C5_NoLimit THEN ret = Ok(call.input)
        ELSE IsOk(ret) =>
                ret.val = LimitNode(C5_Skip(call.limit_clause.val),
                                    C5_Fetch(call.limit_clause.val), call.input)

C5_Witness ==
    /\ call.fn = "limit"
    /\ ~C5_NoLimit
    /\ call.limit_clause.val.kind = "LimitOffset"
    /\ IsNone(call.limit_clause.val.offset)
    /\ IsOk(ret)
    /\ ret.val.node = "Limit"
    /\ ret.val.fetch = Some(Literal(1))
    /\ ret.val.input = call.input

\* C6: limit called with a keyword-form clause whose LIMIT BY list is not
\* empty fails with NotImplemented and returns no plan, whatever the limit
\* and offset fields are and whatever planning their expressions gives.
C6_LimitByNotImplemented ==
    (/\ call.fn = "limit"
     /\ IsSome(call.limit_clause)
     /\ call.limit_clause.val.kind = "LimitOffset"
     /\ call.limit_clause.val.limit_by # <<>>)
    => IsErr(ret) /\ ret.kind = "NotImplemented"

RECURSIVE SortCount(_)
\* the number of Sort nodes of a plan
SortCount(p) ==
    CASE p.node \in {"TableScan", "Values"} -> 0
      [] p.node = "Union" -> SortCount(p.left) + SortCount(p.right)
      [] p.node = "Sort" -> 1 + SortCount(p.input)
      [] OTHER -> SortCount(p.input)

\* C7: order_by with a non-empty sort list on a plan whose root is a
\* Distinct-On node returns a plan whose root is that Distinct-On node, same
\* input and keys, with the given sort list attached; no Sort node is added
\* anywhere.
C7_DistinctOnKeepsSort ==
    (/\ call.fn = "order_by"
     /\ call.order_by # <<>>
     /\ call.plan.node = "DistinctOn")
    => /\ IsOk(ret)
       /\ ret.val.node = "DistinctOn"
       /\ ret.val.input = call.plan.input
       /\ ret.val.on_expr = call.plan.on_expr
       /\ ret.val.select_expr = call.plan.select_expr
       /\ ret.val.sort_expr = Some(call.order_by)
       /\ SortCount(ret.val) = SortCount(call.plan)

C7_Witness ==
    /\ call.fn = "order_by"
    /\ Len(call.order_by) = 2
    /\ call.plan.node = "DistinctOn"
    /\ SortCount(call.plan) = 1
    /\ IsOk(ret)
    /\ ret.val.sort_expr = Some(call.order_by)

\* C8: order_by returns the plan unchanged when the sort list is empty, also
\* on a Distinct-On root; with a non-empty list on any other root it returns
\* a Sort node whose input is the plan and whose sort list is the given list,
\* same elements in the same order.
C8_EmptyNoopElseSort ==
    call.fn = "order_by" =>
        /\ call.order_by = <<>> => ret = Ok(call.plan)
        /\ (call.order_by # <<>> /\ call.plan.node # "DistinctOn") =>
            /\ IsOk(ret)
            /\ ret.val.node = "Sort"
            /\ ret.val.input = call.plan
            /\ ret.val.expr = call.order_by

C8_Witness ==
    /\ call.fn = "order_by"
    /\ Len(call.order_by) = 2
    /\ call.order_by[1] # call.order_by[2]
    /\ call.plan.node = "Projection"
    /\ IsOk(ret)
    /\ ret.val.node = "Sort"
    /\ ret.val.expr = call.order_by

\* C9: select_into with no target returns the plan unchanged; with a target
\* it returns a CreateMemoryTable node over the plan, named by the resolved
\* target, if_not_exists, or_replace and temporary all false, constraints
\* and column defaults empty; when the name does not resolve, the error is
\* returned and no plan.
C9_SelectInto ==
    call.fn = "select_into" =>
        IF IsNone(call.select_into) THEN ret = Ok(call.plan)
        ELSE LET name == object_name_to_table_reference(call.select_into.val.name)
             IN  IF IsErr(name) THEN ret = name
                 ELSE ret = Ok([node |-> "CreateMemoryTable", name |-> name.val,
                                constraints |-> <<>>, input |-> call.plan,
                                if_not_exists |-> FALSE, or_replace |-> FALSE,
                                temporary |-> FALSE, column_defaults |-> <<>>])

C9_Witness ==
    /\ call.fn = "select_into"
    /\ IsSome(call.select_into)
    /\ call.select_into.val.temporary
    /\ IsOk(ret)
    /\ ret.val.node = "CreateMemoryTable"
    /\ ret.val.name = TableReference(<<"s", "t">>)

\* every element of a select list is a plain column reference
AllColumns(l) == \A i \in 1..Len(l) : l[i].expr = "Column"

\* the three cases of C10, for a call on ORDER BY clause ob
C10_Cases(ob) ==
    /\ (IsSome(ob) /\ ob.val.kind.kind = "Expressions") => ret = Ok(ob.val.kind.exprs)
    /\ (/\ IsSome(ob)
        /\ ob.val.kind.kind = "All"
        /\ IsSome(call.select_exprs)
        /\ AllColumns(call.select_exprs.val))
       => /\ IsOk(ret)
          /\ Len(ret.val) = Len(call.select_exprs.val)
          /\ \A i \in 1..Len(ret.val) :
                ret.val[i] =
                    [expr |-> [kind |-> "Identifier",
                               ident |-> [value |-> call.select_exprs.val[i].name,
                                          quote_style |-> None, span |-> "empty"]],
                     options |-> ob.val.kind.options,
                     with_fill |-> None]

\* C10 as stated: to_order_by_exprs_with_select gives, for ORDER BY ALL with
\* options o and a select list of n plain columns, the n unquoted
\* identifiers in select-list order with options o and no fill; for no ORDER
\* BY clause the empty list; for an explicit list that list unchanged.
C10_Original ==
    call.fn = "to_order_by_exprs_with_select" =>
        /\ IsNone(call.order_by) => ret = Ok(<<>>)
        /\ C10_Cases(call.order_by)

\* C10 (amended): the same, for an ORDER BY clause that carries no
\* INTERPOLATE modifier.
C10_OrderByExpansion ==
    call.fn = "to_order_by_exprs_with_select" =>
        /\ IsNone(call.order_by) => ret = Ok(<<>>)
        /\ (IsSome(call.order_by) /\ IsNone(call.order_by.val.interpolate))
            => C10_Cases(call.order_by)

C10_Witness ==
    /\ call.fn = "to_order_by_exprs_with_select"
    /\ IsSome(call.order_by)
    /\ IsNone(call.order_by.val.interpolate)
    /\ call.order_by.val.kind.kind = "All"
    /\ call.order_by.val.kind.options.asc = Some(FALSE)
    /\ IsSome(call.select_exprs)
    /\ call.select_exprs.val = <<Column("a"), Column("b")>>
    /\ IsOk(ret)
    /\ Len(ret.val) = 2

\* C11: to_order_by_exprs_with_select, given ORDER BY ALL and a select list
\* in which at least one element, at any position, is not a plain column
\* reference, fails with NotImplemented: no list, partial or not, is returned.
C11_NonColumnRejected ==
    (/\ call.fn = "to_order_by_exprs_with_select"
     /\ IsSome(call.order_by)
     /\ call.order_by.val.kind.kind = "All"
     /\ IsSome(call.select_exprs)
     /\ ~AllColumns(call.select_exprs.val))
    => /\ IsErr(ret)
       /\ ret.kind = "NotImplemented"

\* the non-column element comes after a plain column, and no INTERPOLATE
\* modifier is there to be rejected first
C11_Witness ==
    /\ call.fn = "to_order_by_exprs_with_select"
    /\ IsSome(call.order_by)
    /\ call.order_by.val.kind.kind = "All"
    /\ IsNone(call.order_by.val.interpolate)
    /\ call.select_exprs = Some(<<Column("a"), ScalarFunction("f")>>)
    /\ ret = not_impl_err("ORDER BY ALL is not supported for non-column expressions")

\* C12: whenever the ORDER BY clause carries an INTERPOLATE modifier,
\* to_order_by_exprs_with_select fails with NotImplemented, for ORDER BY ALL
\* and for an explicit list, with or without a select list and whatever its
\* contents; the error is the INTERPOLATE one even where the ORDER BY ALL
\* non-column rejection would apply.
C12_InterpolateRejected ==
    (/\ call.fn = "to_order_by_exprs_with_select"
     /\ IsSome(call.order_by)
     /\ IsSome(call.order_by.val.interpolate))
    => /\ IsErr(ret)
       /\ ret.kind = "NotImplemented"
       /\ ret = not_impl_err("ORDER BY INTERPOLATE is not supported")

C12_Witness ==
    /\ call.fn = "to_order_by_exprs_with_select"
    /\ IsSome(call.order_by)
    /\ IsSome(call.order_by.val.interpolate)
    /\ call.order_by.val.kind.kind = "All"
    /\ IsSome(call.select_exprs)
    /\ ~AllColumns(call.select_exprs.val)
    /\ ret = not_impl_err("ORDER BY INTERPOLATE is not supported")

\* C13: a query whose body is a set expression and whose ORDER BY is ORDER
\* BY ALL never gets a plan in which the ORDER BY has no effect: when
\* query_to_plan returns a plan, order_by has put the sort on the plan of the
\* set expression.
C13_OrderByAllSurfaced ==
    (/\ ReturnedPlan
     /\ query.body.kind # "Select"
     /\ IsSome(query.order_by)
     /\ query.order_by.val.kind.kind = "All")
    => /\ HasStep("order_by")
       /\ StepOut("order_by").val # StepOut("set_expr_to_plan").val

\* C14: query_to_plan never leaks CTE definitions to its caller: the call
\* starts from a clone of the outer planner context, and no step of the
\* call, whether it ends with a plan or with an error, changes the outer
\* context's CTE mapping, so the next call starts from the same mapping.
C14_NoCteLeak ==
    [][/\ outer_ctx' = outer_ctx
       /\ (pc = "idle" /\ pc' = "with") => ctx' = outer_ctx]_vars

\* the WITH clause was resolved, the clone holds a CTE the outer context
\* does not, and the call has returned
C14_Witness ==
    /\ pc = "done"
    /\ HasStep("plan_with_clause")
    /\ IsOk(StepOut("plan_with_clause"))
    /\ "x" \in ctx
    /\ "x" \notin outer_ctx

\* the planning steps of the call so far, without the stack guard's
PlanSteps ==
    SelectSeq(trace, LAMBDA s : s.step \notin {"StackGuard::new", "drop(_guard)"})
IsPrefix(a, b) == Len(a) <= Len(b) /\ \A i \in 1..Len(a) : a[i] = b[i]
\* the steps of query_to_plan for the query at hand, in source order
StepOrder ==
    (IF IsSome(query.with) THEN <<"plan_with_clause">> ELSE <<>>)
    \o (IF query.body.kind = "Select"
        THEN <<"select_to_plan", "limit", "select_into">>
        ELSE <<"set_expr_to_plan", "to_order_by_exprs", "order_by_to_sort_expr",
               "order_by", "limit">>)

\* C15: query_to_plan is fail-fast: its steps run in the order WITH
\* resolution, body planning, (set-expression branch) ORDER BY expansion and
\* sort, limit, (SELECT branch) select-into; a step runs only after every
\* earlier step succeeded; when a step fails the call returns that step's
\* error unchanged and no plan; a plan is returned only after all steps.
C15_FailFast ==
    LET ps == PlanSteps
    IN  /\ IsPrefix([i \in 1..Len(ps) |-> ps[i].step], StepOrder)
        /\ \A i \in 1..(Len(ps) - 1) : IsOk(ps[i].out)
        /\ (Len(ps) > 0 /\ IsErr(ps[Len(ps)].out))
            => /\ pc \in {"done", "guard_drop"}
               /\ pc = "done" => result = Some(ps[Len(ps)].out)
        /\ (pc = "done" /\ IsOk(result.val))
            => /\ Len(ps) = Len(StepOrder)
               /\ result.val = ps[Len(ps)].out

\* a step in the middle of the set-expression branch failed and the call
\* returned its error
C15_Witness ==
    /\ pc = "done"
    /\ IsSome(query.with)
    /\ LastStep.step = "order_by_to_sort_expr"
    /\ IsErr(LastStep.out)
    /\ result = Some(LastStep.out)

\* C16: the stack guard is acquired only on the set-expression branch, is
\* held exactly from its acquisition, through the run of set_expr_to_plan,
\* to the end of the scope around it, and is released on every exit path: it
\* is not held when to_order_by_exprs, order_by_to_sort_expr, order_by and
\* limit run, nor when the call has returned, with a plan or with the error
\* of set_expr_to_plan, nor between calls.
C16_GuardScoped ==
    /\ guard <=> pc \in {"set_expr", "guard_drop"}
    /\ guard => query.body.kind # "Select"
    /\ HasStep("StackGuard::new") => query.body.kind # "Select"
    /\ \A i \in 1..Len(trace) :
          /\ trace[i].step = "set_expr_to_plan"
             => /\ i > 1 /\ trace[i - 1].step = "StackGuard::new"
                /\ i < Len(trace) => trace[i + 1].step = "drop(_guard)"
          /\ trace[i].step \in {"to_order_by_exprs", "order_by_to_sort_expr",
                                "order_by", "limit", "select_to_plan", "select_into"}
             => (\A j \in 1..(i - 1) :
                    trace[j].step = "StackGuard::new"
                    => \E k \in (j + 1)..(i - 1) : trace[k].step = "drop(_guard)")

\* set_expr_to_plan failed under the guard and the call has returned
C16_Witness ==
    /\ pc = "done"
    /\ HasStep("StackGuard::new")
    /\ IsErr(StepOut("set_expr_to_plan"))
    /\ result = Some(StepOut("set_expr_to_plan"))
    /\ LastStep.step = "drop(_guard)"
    /\ ~guard

(***************************************************************************)
(* Properties of the builders, under BuilderSpec.                          *)
(***************************************************************************)
\* C17: QueryBuilder::build fails with UninitializedField("body") whenever
\* no body is set at the time, never set or taken out by take_body,
\* whatever the other fields hold; when a body has been set and not taken
\* since, build succeeds and the body of the query is the body last set.
C17_BodyRequired ==
    call.fn = "QueryBuilder::build" =>
        IF IsNone(last_body) THEN ret = UninitializedField("body")
        ELSE /\ IsOk(ret)
             /\ ret.val.body = last_body.val

\* a body was set and taken out again, another field was set, build fails
C17_Witness ==
    /\ call.fn = "QueryBuilder::build"
    /\ ncalls = 3
    /\ IsNone(last_body)
    /\ IsSome(call.self.with)
    /\ ret = UninitializedField("body")

\* some FROM-item builder of the list fails to build
FromFails(from) == \E i \in 1..Len(from) : IsErr(TableWithJoinsBuilder_build(from[i]))

\* C18 as stated: after any sequence of public setter calls on a default
\* SelectBuilder, build succeeds if group_by and flavor both hold a value.
C18_Original ==
    (/\ call.fn = "SelectBuilder::build"
     /\ cur = "SelectBuilder::default()"
     /\ IsSome(call.self.group_by)
     /\ IsSome(call.self.flavor))
    => IsOk(ret)

\* C18 (amended): after any sequence of public setter calls on a default
\* SelectBuilder, group_by and flavor hold a value, and build fails exactly
\* when one of the FROM-item builders fails to build, with the error of the
\* first of them that fails.
C18_BuildFailsOnlyOnFrom ==
    (/\ call.fn = "SelectBuilder::build"
     /\ cur = "SelectBuilder::default()")
    => /\ IsSome(call.self.group_by)
       /\ IsSome(call.self.flavor)
       /\ IsErr(ret) <=> FromFails(call.self.from)
       /\ IsErr(ret)
          => \E i \in 1..Len(call.self.from) :
                /\ ret = TableWithJoinsBuilder_build(call.self.from[i])
                /\ \A j \in 1..(i - 1) :
                      IsOk(TableWithJoinsBuilder_build(call.self.from[j]))

\* from, push_from and group_by were called, build succeeds
C18_Witness ==
    /\ call.fn = "SelectBuilder::build"
    /\ cur = "SelectBuilder::default()"
    /\ ncalls = 3
    /\ call.self.from = <<FromEmpty, FromTable>>
    /\ call.self.group_by = Some(GroupByExpressions(<<SqlIdentifier(Ident("a", None))>>, <<>>))
    /\ IsOk(ret)

\* C19: a default SelectBuilder built with no further call succeeds, with
\* group_by the empty expression list, flavor Standard, an empty projection,
\* an empty FROM list and no selection; a SelectBuilder whose group_by or
\* flavor is None fails to build with UninitializedField naming the field,
\* group_by before flavor.
C19_Defaults ==
    /\ (/\ call.fn = "SelectBuilder::build"
        /\ cur = "SelectBuilder::default()"
        /\ ncalls = 0)
       => /\ IsOk(ret)
          /\ ret.val.group_by = [kind |-> "Expressions", exprs |-> <<>>,
                                 modifiers |-> <<>>]
          /\ ret.val.flavor = [flavor |-> "Standard"]
          /\ ret.val.projection = <<>>
          /\ ret.val.from = <<>>
          /\ ret.val.selection = None
    /\ (/\ call.fn = "SelectBuilder::build"
        /\ ~FromFails(call.self.from))
       => /\ IsNone(call.self.group_by) => ret = UninitializedField("group_by")
          /\ (IsSome(call.self.group_by) /\ IsNone(call.self.flavor))
             => ret = UninitializedField("flavor")

\* the builder has its flavor cleared and nothing else changed, build fails
C19_Witness ==
    /\ call.fn = "SelectBuilder::build"
    /\ cur = "SelectBuilder { .. }"
    /\ ncalls = 0
    /\ IsSome(call.self.group_by)
    /\ IsNone(call.self.flavor)
    /\ ret = UninitializedField("flavor")

RECURSIVE Conjunction(_)
\* the left-nested conjunction, in order, of the arguments that are not None
Conjunction(args) ==
    IF args = <<>> THEN None
    ELSE LET front == Conjunction(SubSeq(args, 1, Len(args) - 1))
             last == args[Len(args)]
         IN  IF IsNone(last) THEN front
             ELSE IF IsNone(front) THEN last
             ELSE Some([kind |-> "BinaryOp", left |-> front.val, op |-> "And",
                        right |-> last.val])

\* C20: after any sequence of calls selection(v1) .. selection(vn) on a
\* builder created with no predicate, the stored predicate is the
\* left-nested conjunction, in call order, of the arguments that are not
\* None, and None when all were None: selection(None) changes nothing.
C20_SelectionConjunction ==
    (SelectBuilderHeld /\ \A i \in 1..Len(selections) : selections[i].tag # "Mark")
        => sb.selection = Conjunction(selections)

\* three predicates were given: AND(AND(a, b), a)
C20_Witness ==
    /\ SelectBuilderHeld
    /\ Len(selections) = 3
    /\ \A i \in 1..3 : IsSome(selections[i])
    /\ selections[1] # selections[2]
    /\ sb.selection.val.kind = "BinaryOp"
    /\ sb.selection.val.left.kind = "BinaryOp"
    /\ sb.selection.val.left.left = selections[1].val
    /\ sb.selection.val.left.right = selections[2].val
    /\ sb.selection.val.right = selections[3].val

RECURSIVE Occurrences(_, _)
\* the number of nodes of the tree t that are equal to e
Occurrences(t, e) ==
    IF t = e THEN 1
    ELSE IF t.kind = "BinaryOp"
    THEN Occurrences(t.left, e) + Occurrences(t.right, e)
    ELSE 0

RECURSIVE Substitute(_, _, _)
\* the tree t with r in the place of every node equal to e
Substitute(t, e, r) ==
    IF t = e THEN r
    ELSE IF t.kind = "BinaryOp"
    THEN [t EXCEPT !.left = Substitute(t.left, e, r),
                   !.right = Substitute(t.right, e, r)]
    ELSE t

\* C21: replace_mark(existing, replacement) puts the replacement in the
\* place of every node of the selection that is equal to existing; a
\* selection with no such node, and a builder with no selection, are left
\* as they were; no other field of the builder changes.
C21_ReplaceMark ==
    call.fn = "SelectBuilder::replace_mark" =>
        LET before == call.self
            e == call.existing_expr
            r == call.value
        IN  /\ \A f \in DOMAIN sb \ {"selection"} : sb[f] = before[f]
            /\ IsNone(before.selection) => sb = before
            /\ IsSome(before.selection) =>
                   /\ sb.selection = Some(Substitute(before.selection.val, e, r))
                   /\ Occurrences(before.selection.val, e) = 0 => sb = before

\* the mark stood on both sides of the conjunction and both were replaced
C21_Witness ==
    /\ call.fn = "SelectBuilder::replace_mark"
    /\ IsSome(call.self.selection)
    /\ Occurrences(call.self.selection.val, call.existing_expr) = 2
    /\ sb.selection = Some(BinaryOp(call.value, "And", call.value))
    /\ sb.selection # call.self.selection

\* the finalizer of the relation builder of a variant
VariantBuild(f) ==
    CASE f.variant = "Table" -> TableRelationBuilder_build(f.builder)
      [] f.variant = "Derived" -> DerivedRelationBuilder_build(f.builder)
      [] f.variant = "Unnest" -> UnnestRelationBuilder_build(f.builder)

\* C22: TableWithJoinsBuilder::build has three outcomes: the error
\* UninitializedField("relation") when no relation builder was set or the
\* relation builder has no variant; Ok with no node when the variant is
\* Empty, whatever joins were pushed; otherwise the error of the relation's
\* finalizer, or the node of the finalized relation with the joins in push
\* order.
C22_TableWithJoinsOutcomes ==
    /\ call.fn = "TableWithJoinsBuilder::push_join" =>
           rel.joins = call.self.joins \o <<call.value>>
    /\ call.fn = "TableWithJoinsBuilder::build" =>
           LET self == call.self
           IN  IF IsNone(self.relation) \/ IsNone(self.relation.val.relation)
               THEN ret = UninitializedField("relation")
               ELSE LET f == self.relation.val.relation.val
                    IN  IF f.variant = "Empty" THEN ret = Ok(None)
                        ELSE IF IsErr(VariantBuild(f)) THEN ret = VariantBuild(f)
                        ELSE ret = Ok(Some([relation |-> VariantBuild(f).val,
                                            joins |-> self.joins]))

\* the Empty relation with a join pushed finalizes to no node
C22_Witness ==
    /\ call.fn = "TableWithJoinsBuilder::build"
    /\ IsSome(rel.relation)
    /\ rel.relation.val.relation = Some(TableFactorBuilder("Empty", None))
    /\ rel.joins # <<>>
    /\ ret = Ok(None)

\* C23: RelationBuilder::alias(a) sets the alias of the builder of the
\* active variant when that is Table, Derived or Unnest and changes nothing
\* else; with no variant and with Empty it changes nothing.  table(t),
\* derived(d) and unnest(u) called after alias(a) store t, d or u as given:
\* the finalized relation carries the alias of t, d or u.
C23_AliasDispatch ==
    /\ call.fn = "RelationBuilder::alias" =>
           LET self == call.self
           IN  IF IsSome(self.relation)
                  /\ self.relation.val.variant \in {"Table", "Derived", "Unnest"}
               THEN rel = [relation |-> Some(TableFactorBuilder(
                               self.relation.val.variant,
                               [self.relation.val.builder EXCEPT !.alias = call.value]))]
               ELSE rel = self
    /\ (/\ call.fn \in {"RelationBuilder::table", "RelationBuilder::derived",
                         "RelationBuilder::unnest"}
        /\ IsSome(call.alias_before)) =>
           /\ rel = [relation |-> Some(call.value)]
           /\ IsOk(RelationBuilder_build(rel)) =>
                  RelationBuilder_build(rel).val.val.alias = call.value.builder.alias

\* alias(y) on a builder with no variant, then table(t) with t of no alias:
\* the finalized relation has no alias
C23_Witness ==
    /\ call.fn = "RelationBuilder::table"
    /\ call.alias_before = Some(Some(TableAlias("y")))
    /\ call.self = RelationBuilder_create_empty
    /\ IsOk(RelationBuilder_build(rel))
    /\ RelationBuilder_build(rel).val.val.alias = None

\* C24: the table builder fails, with UninitializedField("name"), exactly
\* when no name was set; the derived builder fails exactly when lateral or
\* subquery was not set, with "lateral" when lateral is missing and with
\* "subquery" when only the subquery is; the unnest builder never fails.
\* The node of a success holds the fields as set, the fields never set at
\* their defaults, and no ordinality, JSON path or sample for a table.
C24_RelationFinalizers ==
    /\ call.fn = "TableRelationBuilder::build" =>
           LET self == call.self
           IN  /\ IsErr(ret) <=> IsNone(self.name)
               /\ IsErr(ret) => ret = UninitializedField("name")
               /\ IsOk(ret) =>
                      /\ ret.val.factor = "Table"
                      /\ ret.val.name = self.name.val
                      /\ \A f \in {"alias", "with_hints", "version", "partitions",
                                    "index_hints"} : ret.val[f] = self[f]
                      /\ IsNone(self.args) <=> IsNone(ret.val.args)
                      /\ IsSome(self.args) =>
                             ret.val.args.val = [args |-> self.args.val, settings |-> None]
                      /\ ret.val.with_ordinality = FALSE
                      /\ ret.val.json_path = None
                      /\ ret.val.sample = None
    /\ call.fn = "DerivedRelationBuilder::build" =>
           LET self == call.self
           IN  /\ IsErr(ret) <=> (IsNone(self.lateral) \/ IsNone(self.subquery))
               /\ IsNone(self.lateral) => ret = UninitializedField("lateral")
               /\ (IsSome(self.lateral) /\ IsNone(self.subquery)) =>
                      ret = UninitializedField("subquery")
               /\ IsOk(ret) =>
                      ret.val = [factor |-> "Derived", lateral |-> self.lateral.val,
                                 subquery |-> self.subquery.val, alias |-> self.alias]
    /\ call.fn = "UnnestRelationBuilder::build" =>
           LET self == call.self
           IN  /\ IsOk(ret)
               /\ ret.val.factor = "UNNEST"
               /\ \A f \in DOMAIN self : ret.val[f] = self[f]

\* a table builder given its name only: the node has no alias, no
\* arguments, no hints, no version, no partitions
C24_Witness ==
    /\ call.fn = "TableRelationBuilder::build"
    /\ call.self = [TableRelationBuilder_create_empty EXCEPT !.name = Some(<<"t">>)]
    /\ IsOk(ret)
    /\ ret.val.alias = None
    /\ ret.val.args = None
    /\ ret.val.with_hints = <<>>
    /\ ret.val.index_hints = <<>>

\* the finalizers
BuildCalls ==
    {"QueryBuilder::build", "SelectBuilder::build", "TableWithJoinsBuilder::build",
     "RelationBuilder::build", "TableRelationBuilder::build",
     "DerivedRelationBuilder::build", "UnnestRelationBuilder::build"}

\* the builder the caller holds
Held ==
    IF cur = "QueryBuilder" THEN qb
    ELSE IF SelectBuilderHeld THEN sb
    ELSE rel

\* C25: every builder is terminal.  A finalizer consumes its builder: once
\* a finalizer has returned, the builder is no longer with the caller.  And
\* should a finalized builder still be with the caller, the next call
\* neither changes a field of it nor finalizes it again.
C25_BuildersTerminal ==
    [][/\ call'.fn \in BuildCalls => cur' = "none"
       /\ (call.fn \in BuildCalls /\ cur # "none") =>
             (cur' = "none" \/ (Held' = Held /\ call'.fn \notin BuildCalls))]_vars

\* a FROM-item builder whose relation is the Empty variant
IsEmptyItem(b) ==
    /\ IsSome(b.relation)
    /\ b.relation.val.relation = Some(TableFactorBuilder("Empty", None))

\* C26: when every FROM-item builder finalizes, the FROM list of the SELECT
\* node is the list of their nodes in the order of the builders, without
\* the items of the Empty variant, and so shorter than the list of builders
\* by the number of those; when one fails, SelectBuilder::build fails with
\* the error of the first that fails and returns no node.
C26_FromList ==
    call.fn = "SelectBuilder::build" =>
        LET from == call.self.from
            out(i) == TableWithJoinsBuilder_build(from[i])
            failing == {i \in 1..Len(from) : IsErr(out(i))}
            HasNode(b) == IsSome(TableWithJoinsBuilder_build(b).val)
            kept == SelectSeq(from, HasNode)
        IN  IF failing # {}
            THEN ret = out(CHOOSE i \in failing : \A j \in failing : i <= j)
            ELSE IsOk(ret) =>
                    /\ ret.val.from =
                           [i \in 1..Len(kept) |-> TableWithJoinsBuilder_build(kept[i]).val.val]
                    /\ Len(ret.val.from) =
                           Len(from) - Cardinality({i \in 1..Len(from) : IsEmptyItem(from[i])})

\* the Empty relation and an UNNEST relation: the SELECT node has the one
\* FROM item of the second builder
C26_Witness ==
    /\ call.fn = "SelectBuilder::build"
    /\ Len(call.self.from) = 2
    /\ IsEmptyItem(call.self.from[1])
    /\ IsOk(ret)
    /\ Len(ret.val.from) = 1
    /\ ret.val.from[1].relation.factor = "UNNEST"
    /\ ret.val.from[1].joins = call.self.from[2].joins

\* C27: the query QueryBuilder::build returns always has a limit clause of
\* the LIMIT .. OFFSET .. form, holding the limit, offset and limit-by of
\* the builder, also when none of them was set.  Given to limit, the clause
\* of a builder with no limit, no offset and no limit-by leaves the plan as
\* it is, and the clause of a builder with a limit-by is rejected with
\* NotImplemented.
C27_LimitClauseOfBuild ==
    /\ (call.fn = "QueryBuilder::build" /\ IsOk(ret)) =>
           ret.val.limit_clause = Some(LimitOffset(qb.limit, qb.offset, qb.limit_by))
    /\ (call.fn = "limit" /\ cur = "QueryBuilder") =>
           /\ call.limit_clause = Some(LimitOffset(qb.limit, qb.offset, qb.limit_by))
           /\ (IsNone(qb.limit) /\ IsNone(qb.offset) /\ qb.limit_by = <<>>) =>
                  ret = Ok(call.input)
           /\ qb.limit_by # <<>> => (IsErr(ret) /\ ret.kind = "NotImplemented")

\* C28: pop_projections returns the projection as it was and leaves it
\* empty; already_projected is true exactly when the projection is not
\* empty, and false right after pop_projections; push_from appends at the
\* end; pop_from removes and returns the last FROM item, and returns
\* nothing and changes nothing on an empty list; pop_from right after
\* push_from(x) returns x and leaves the builder as it was before the two
\* calls.  None of the four changes another field.
C28_ListOperations ==
    [][LET self == call'.self
       IN  /\ call'.fn = "SelectBuilder::pop_projections" =>
                  /\ ret' = Some(self.projection)
                  /\ sb' = [self EXCEPT !.projection = <<>>]
           /\ call'.fn = "SelectBuilder::already_projected" =>
                  /\ ret' = Some([bool |-> sb'.projection # <<>>])
                  /\ sb' = self
                  /\ call.fn = "SelectBuilder::pop_projections" =>
                         ret' = Some([bool |-> FALSE])
           /\ call'.fn = "SelectBuilder::push_from" =>
                  sb' = [self EXCEPT !.from = self.from \o <<call'.value>>]
           /\ call'.fn = "SelectBuilder::pop_from" =>
                  /\ self.from = <<>> => (ret' = Some(None) /\ sb' = self)
                  /\ self.from # <<>> =>
                         /\ ret' = Some(Some(self.from[Len(self.from)]))
                         /\ sb' = [self EXCEPT !.from = SubSeq(self.from, 1,
                                                              Len(self.from) - 1)]
                  /\ call.fn = "SelectBuilder::push_from" =>
                         (ret' = Some(Some(call.value)) /\ sb' = call.self)]_vars

\* pop_from on a list of two different FROM items returned the second and
\* left the first
C28_Witness ==
    /\ call.fn = "SelectBuilder::pop_from"
    /\ Len(call.self.from) = 2
    /\ call.self.from[1] # call.self.from[2]
    /\ ret = Some(Some(call.self.from[2]))
    /\ sb.from = <<call.self.from[1]>>
    /\ sb.projection = call.self.projection

====
